---- MODULE Spec2Model ----
(***************************************************************************)
(* Conversation turn machine of the Seguros SURA multi-agent assistant.    *)
(*                                                                         *)
(* One session is modelled.  A turn is one call of                         *)
(* AgentOrchestrator.process_user_input: the state is rebuilt from the     *)
(* session store, the router picks a handler, handlers run and hand over   *)
(* through _check_post_agent_routing until the graph reaches END, and the  *)
(* caller (the client interface) folds the response context back into the  *)
(* context it passes on the next call.                                     *)
(*                                                                         *)
(* Python dicts are functions from key strings to values; user texts are   *)
(* strings and every keyword test is the substring test of the code.       *)
(***************************************************************************)
EXTENDS Integers, Sequences, FiniteSets, TLC

(***************************************************************************)
(* What a user may type in a turn.                                         *)
(***************************************************************************)
Corpus == {
    "hola",
    "quiero cotizar mi carro",
    "toyota corolla 2020",
    "quiero comprarlo",
    "1",
    "cedula 12345678",
    "12345678 3001234567 a@b.com",
    "si confirmo",
    "no, quiero hacer cambios",
    "no confirmo",
    "tal vez",
    "no se",
    "deseo emitir la poliza",
    "quiero hablar con un asesor",
    "detalles de mi poliza" }

(***************************************************************************)
(* Strings: str.lower(), str.upper(), "w in s", any(w in s for w in ws),   *)
(* str.split(), str.strip(), str.isdigit().                                *)
(***************************************************************************)
UpperChars == <<"A","B","C","D","E","F","G","H","I","J","K","L","M","N","O",
                "P","Q","R","S","T","U","V","W","X","Y","Z","Á","É","Í","Ó","Ú","Ñ">>
LowerChars == <<"a","b","c","d","e","f","g","h","i","j","k","l","m","n","o",
                "p","q","r","s","t","u","v","w","x","y","z","á","é","í","ó","ú","ñ">>
Digits == {"0","1","2","3","4","5","6","7","8","9"}

CharAt(s, i) == SubSeq(s, i, i)

UpperSet == {UpperChars[i] : i \in DOMAIN UpperChars}
LowerSet == {LowerChars[i] : i \in DOMAIN LowerChars}

\* the character c mapped from one case to the other; others stay
MapChar(c, from, to, fromSet) ==
    IF c \in fromSet
    THEN to[CHOOSE i \in DOMAIN from : from[i] = c]
    ELSE c

\* s[i..] with every character mapped
RECURSIVE MapStr(_, _, _, _, _)
MapStr(s, i, from, to, fromSet) ==
    IF i > Len(s) THEN ""
    ELSE MapChar(CharAt(s, i), from, to, fromSet) \o MapStr(s, i + 1, from, to, fromSet)

\* the texts of the corpus are mapped once; any other text when asked
LowerTable == [s \in Corpus |-> MapStr(s, 1, UpperChars, LowerChars, UpperSet)]
UpperTable == [s \in Corpus |-> MapStr(s, 1, LowerChars, UpperChars, LowerSet)]

Lower(s) ==
    IF s \in DOMAIN LowerTable THEN LowerTable[s]
    ELSE MapStr(s, 1, UpperChars, LowerChars, UpperSet)
Upper(s) ==
    IF s \in DOMAIN UpperTable THEN UpperTable[s]
    ELSE MapStr(s, 1, LowerChars, UpperChars, LowerSet)

\* every substring of the corpus texts and of their two case mappings
SubstringTable ==
    [s \in Corpus \cup {LowerTable[u] : u \in Corpus} \cup {UpperTable[u] : u \in Corpus}
        |-> {SubSeq(s, i, j) : i \in 1..Len(s), j \in 1..Len(s)}]

\* w in s
Contains(s, w) ==
    IF s \in DOMAIN SubstringTable THEN w \in SubstringTable[s]
    ELSE \E i \in 1..(Len(s) - Len(w) + 1) : SubSeq(s, i, i + Len(w) - 1) = w

AnyIn(words, s) == \E w \in words : Contains(s, w)

RECURSIVE Strip(_)
Strip(s) ==
    IF Len(s) = 0 THEN s
    ELSE IF CharAt(s, 1) = " " THEN Strip(SubSeq(s, 2, Len(s)))
    ELSE IF CharAt(s, Len(s)) = " " THEN Strip(SubSeq(s, 1, Len(s) - 1))
    ELSE s

\* len(s.split()): the number of maximal runs of non-blank characters
WordCount(s) ==
    Cardinality({i \in 1..Len(s) :
        /\ CharAt(s, i) # " "
        /\ (i = 1 \/ CharAt(s, i - 1) = " ")})

IsDigit(s) == Len(s) > 0 /\ \A i \in 1..Len(s) : CharAt(s, i) \in Digits

(***************************************************************************)
(* Dicts: d.get(k, default), d[k] = v, d.update(e), d.pop(k, None).        *)
(* None is the value d.get(k) yields for a missing key.                    *)
(***************************************************************************)
None == "None"
EmptyDict == [k \in {} |-> TRUE]
Has(d, k) == k \in DOMAIN d
Get(d, k, default) == IF k \in DOMAIN d THEN d[k] ELSE default
Put(d, k, v) == (k :> v) @@ d
Update(d, e) == e @@ d
Pop(d, k) == [x \in (DOMAIN d) \ {k} |-> d[x]]
\* truth value of a string-or-None entry
Truthy(v) == v # None /\ v # ""

(***************************************************************************)
(* Keyword tests of the handlers' can_handle methods.                      *)
(***************************************************************************)
human_request_keywords == {
    "persona", "humano", "asesor", "agente", "representante",
    "hablar con alguien", "no entiendo", "esto no funciona",
    "quiero cancelar", "mal servicio", "problema", "error",
    "no me sirve", "necesito ayuda", "confundido" }

frustration_words == {
    "frustrado", "molesto", "enojado", "cansado", "harto",
    "perdiendo tiempo", "no entiende nada", "esto no funciona para nada" }

urgency_signs == { "!!!", "???", "AYUDA", "URGENTE", "YA" }

_check_explicit_human_request(user_input) ==
    AnyIn(human_request_keywords, Lower(user_input))

_detect_frustration_patterns(user_input) ==
    \/ AnyIn(frustration_words, Lower(user_input))
    \/ AnyIn(urgency_signs, Upper(user_input))

\* context.get("conversation_history", []) is read from context_data, which
\* never holds that key: the history is a field of AgentState.
_detect_abandonment_or_stagnation(context) ==
    Has(context, "conversation_history")

HumanLoop_can_handle(user_input, context) ==
    \/ _check_explicit_human_request(user_input)
    \/ _detect_frustration_patterns(user_input)
    \/ Get(context, "needs_human_intervention", FALSE)
    \/ _detect_abandonment_or_stagnation(context)

expedition_keywords == {
    "comprar", "adquirir", "expedir", "emitir", "contratar",
    "quiero la póliza", "proceder", "acepto", "confirmo",
    "datos personales", "cédula", "teléfono" }

ExpeditionStates == {
    "needs_quotation", "requesting_client_data", "validating_data",
    "confirming_purchase", "processing_expedition", "expedition_completed" }

Expedition_can_handle(user_input, context) ==
    \/ AnyIn(expedition_keywords, Lower(user_input))
    \/ Get(context, "transfer_to", None) = "expedition"
    \/ Get(context, "expedition_state", None) \in ExpeditionStates

quotation_keywords == {
    "quiero cotizar", "necesito cotización", "cotizar mi",
    "precio del seguro", "cuánto me cuesta el seguro",
    "imagen del vehículo", "foto del vehículo" }

QuotationStates == {
    "awaiting_image", "analyzing_image", "awaiting_details",
    "generating_quote", "quote_ready" }

simple_words == {"entonces", "bien", "si", "ok", "hola", "como estas", "bueno", "gracias"}

vehicle_indicators == {
    "modelo", "marca", "año", "línea", "color", "clase",
    "ford", "toyota", "chevrolet", "nissan", "hyundai", "honda", "mazda",
    "automóvil", "camioneta", "suv", "sedan", "hatchback",
    "2020", "2021", "2022", "2023", "2024", "2025",
    "no sé", "no se", "no conozco", "no tengo idea" }

image_mentions == {"imagen", "foto", "fotografía", "picture", "subida", "adjunta"}

explicit_quotation_keywords == {
    "cotizar", "cotización", "quiero cotizar", "precio seguro",
    "valor póliza", "cuánto cuesta" }

\* saved_state is the quotation blob as the store holds it (the code reads it
\* when the context carries no quotation state).
Quotation_can_handle(user_input, context, saved_state) ==
    LET low == Strip(Lower(user_input))
        in_process ==
            \/ Get(context, "quotation_state", None) \in QuotationStates
            \/ Get(saved_state, "quotation_state", None) \in QuotationStates
    IN  IF WordCount(low) <= 2 /\ AnyIn(simple_words, low)
        THEN FALSE
        ELSE \/ AnyIn(explicit_quotation_keywords, low)
             \/ (AnyIn(quotation_keywords, low) /\ WordCount(low) > 1 /\ Len(low) > 10)
             \/ (Get(context, "has_image", FALSE)
                    /\ Get(context, "quotation_state", None) \in QuotationStates)
             \/ in_process
             \/ (AnyIn(vehicle_indicators, low) /\ Len(low) > 5)
             \/ (AnyIn(image_mentions, low) /\ Len(low) > 10)

priority_consultation_phrases == {
    "qué cubre", "qué incluye", "plan básico", "plan clásico", "plan global",
    "diferencia entre", "cómo funciona", "coberturas del", "beneficios del" }

consultation_keywords == {
    "cobertura", "plan", "póliza", "seguro", "deducible", "prima",
    "asistencia", "beneficio", "condiciones", "exclusiones", "vigencia",
    "daños", "hurto", "terceros", "vidrios", "llaves", "requisitos" }

greeting_keywords == {
    "hola", "buenos días", "buenas tardes", "buenas noches",
    "buen día", "saludos", "holi", "hello", "hi", "hey",
    "qué tal", "cómo está", "ayuda", "información", "ayudar" }

Consultant_can_handle(user_input) ==
    LET low == Lower(user_input)
        explicit_other ==
            \/ AnyIn({"quiero cotizar", "cotizar mi vehículo", "precio del seguro"}, low)
            \/ AnyIn({"comprar póliza", "expedir póliza", "emitir póliza"}, low)
    IN  \/ AnyIn(priority_consultation_phrases, low)
        \/ (AnyIn(consultation_keywords, low) /\ ~explicit_other)
        \/ AnyIn(greeting_keywords, low)
        \/ (WordCount(low) <= 3 /\ ~explicit_other)

(***************************************************************************)
(* Regular expressions of ExpeditionAgent._parse_client_data and           *)
(* _parse_plan_selection, computed on the text.                            *)
(***************************************************************************)
AsciiLetters ==
    {LowerChars[i] : i \in 1..26} \cup {UpperChars[i] : i \in 1..26}
\* \w of Python's re on str: letters (accented ones too), digits, underscore
WordChars ==
    {LowerChars[i] : i \in DOMAIN LowerChars}
    \cup {UpperChars[i] : i \in DOMAIN UpperChars} \cup Digits \cup {"_"}
EmailLocalChars == AsciiLetters \cup Digits \cup {".", "_", "%", "+", "-"}
EmailDomainChars == AsciiLetters \cup Digits \cup {".", "-"}

\* the maximal runs of characters of `chars` in s, as <<first, last>> pairs
Runs(s, chars) ==
    {<<i, j>> \in (1..Len(s)) \X (1..Len(s)) :
        /\ i <= j
        /\ \A k \in i..j : CharAt(s, k) \in chars
        /\ (i = 1 \/ CharAt(s, i - 1) \notin chars)
        /\ (j = Len(s) \/ CharAt(s, j + 1) \notin chars)}

\* the texts of the runs, in the order they occur
RunTexts(s, chars) ==
    LET rs == Runs(s, chars)
        Nth[n \in 1..Cardinality(rs)] ==
            CHOOSE r \in rs : Cardinality({q \in rs : q[1] < r[1]}) = n - 1
    IN  [n \in 1..Cardinality(rs) |-> SubSeq(s, Nth[n][1], Nth[n][2])]

SelectSeqOr(seq, Test(_), default) ==
    IF \E i \in DOMAIN seq : Test(seq[i])
    THEN seq[CHOOSE i \in DOMAIN seq : Test(seq[i]) /\ \A j \in 1..(i - 1) : ~Test(seq[j])]
    ELSE default

StartsWith(s, c) == Len(s) > 0 /\ CharAt(s, 1) = c

\* re.findall(r'\b(3\d{9})\b', s)[0], or None
PhoneMatch(s) ==
    LET IsPhone(w) == IsDigit(w) /\ Len(w) = 10 /\ StartsWith(w, "3")
    IN  SelectSeqOr(RunTexts(s, WordChars), IsPhone, None)

\* the first of re.findall(r'\b(\d{6,11})\b', s) that does not start with 3
CedulaMatch(s) ==
    LET IsCedula(w) == IsDigit(w) /\ Len(w) >= 6 /\ Len(w) <= 11 /\ ~StartsWith(w, "3")
    IN  SelectSeqOr(RunTexts(s, WordChars), IsCedula, None)

\* re.search(r'([a-zA-Z0-9._%+-]+@[a-zA-Z0-9.-]+\.[a-zA-Z]{2,})', s), or None:
\* the leftmost "@" with a local part before it and, after it, a run of domain
\* characters holding a dot (not first) that two letters follow; the match
\* ends with the letters after the last such dot
EmailAt(s, p) ==
    LET first == CHOOSE i \in 1..p :
                    /\ \A k \in i..(p - 1) : CharAt(s, k) \in EmailLocalChars
                    /\ (i = 1 \/ CharAt(s, i - 1) \notin EmailLocalChars)
        last == CHOOSE j \in p..Len(s) :
                    /\ \A k \in (p + 1)..j : CharAt(s, k) \in EmailDomainChars
                    /\ (j = Len(s) \/ CharAt(s, j + 1) \notin EmailDomainChars)
        dots == {d \in (p + 2)..(last - 2) :
                    /\ CharAt(s, d) = "."
                    /\ CharAt(s, d + 1) \in AsciiLetters
                    /\ CharAt(s, d + 2) \in AsciiLetters}
        dot == CHOOSE d \in dots : \A e \in dots : e <= d
        stop == CHOOSE j \in (dot + 2)..last :
                    /\ \A k \in (dot + 1)..j : CharAt(s, k) \in AsciiLetters
                    /\ (j = last \/ CharAt(s, j + 1) \notin AsciiLetters)
    IN  IF first < p /\ dots # {} THEN SubSeq(s, first, stop) ELSE None

EmailMatch(s) ==
    LET ats == {p \in 1..Len(s) : CharAt(s, p) = "@" /\ EmailAt(s, p) # None}
    IN  IF ats = {} THEN None
        ELSE EmailAt(s, CHOOSE p \in ats : \A q \in ats : p <= q)

\* the regular-expression pass of _parse_client_data (the corpus holds no
\* capitalised words, so the name pattern never matches)
RegexClientData(user_input) ==
    LET Matched(found) == [f \in {k \in DOMAIN found : found[k] # None} |-> found[f]]
    IN  Matched([email_tomador |-> EmailMatch(user_input),
                 celular_tomador |-> PhoneMatch(user_input),
                 identificacion_tomador |-> CedulaMatch(user_input)])

(***************************************************************************)
(* Intent classifier (agents/intent_classifier.py).  The answer of the     *)
(* language model is an input of the turn: the call may raise, the text    *)
(* may fail to parse, or it names an agent with a confidence (in percent). *)
(***************************************************************************)
Agents == {"consultant", "quotation", "expedition", "human_loop"}

ErrorConfidence == 50
RoutingThreshold == 60

ClassifierOutputs ==
    {[kind |-> k, agent |-> "consultant", confidence |-> ErrorConfidence] :
        k \in {"llm_error", "bad_json"}}
    \cup {[kind |-> "json", agent |-> a, confidence |-> c] :
        a \in Agents \cup {"other"}, c \in {40, 80}}

Min(a, b) == IF a < b THEN a ELSE b

_fallback_classification(user_input) ==
    LET low == Lower(user_input)
    IN  IF AnyIn({"cotizar", "cotización", "cuánto cuesta"}, low)
        THEN [intent |-> "quotation_request", agent |-> "quotation", confidence |-> 70]
        ELSE IF AnyIn({"comprar", "acepto", "proceder"}, low)
        THEN [intent |-> "purchase_intent", agent |-> "expedition", confidence |-> 70]
        ELSE IF AnyIn({"asesor", "humano", "persona"}, low)
        THEN [intent |-> "human_request", agent |-> "human_loop", confidence |-> 80]
        ELSE [intent |-> "consultation", agent |-> "consultant", confidence |-> 60]

_apply_contextual_validations(classification, user_input, context) ==
    LET low == Lower(user_input)
        bump(c, intent, agent) ==
            [intent |-> intent, agent |-> agent,
             confidence |-> Min(90, c.confidence + 20)]
        c1 == IF /\ Get(context, "quotation_state", None) = "awaiting_details"
                 /\ AnyIn({"toyota", "ford", "chevrolet", "2020", "2019", "sedán", "suv"}, low)
              THEN bump(classification, "quotation_details", "quotation")
              ELSE classification
        c2 == IF /\ Get(context, "quotation_state", None) = "quote_ready"
                 /\ AnyIn({"acepto", "comprar", "quiero", "proceder", "sí"}, low)
              THEN bump(c1, "purchase_intent", "expedition")
              ELSE c1
    IN  IF /\ Get(context, "expedition_state", None) = "requesting_client_data"
           /\ AnyIn({"@", "cédula", "teléfono", "nombre"}, user_input)
        THEN bump(c2, "client_data", "expedition")
        ELSE c2

classify_intent(llm, user_input, context) ==
    IF llm.kind = "llm_error"
    THEN [intent |-> "consultation", agent |-> "consultant", confidence |-> ErrorConfidence]
    ELSE IF llm.kind = "bad_json"
    THEN _fallback_classification(user_input)
    ELSE _apply_contextual_validations(
            [intent |-> "llm", agent |-> llm.agent, confidence |-> llm.confidence],
            user_input, context)

VARIABLES
    db,             \* the session store (utils/database.py tables)
    pc,             \* graph node the running turn is at, "idle" between turns
    state,          \* the AgentState of the running turn
    user_context,   \* st.session_state.user_context of the client interface
    turn,           \* record of the running turn: what it did so far
    caller,         \* how the session is driven: "client", "api", "" before its first turn
    known,          \* history: the client fields Issuance held when the last turn ended
    calls,          \* calls of process_user_input that overlap on the one session
    handoffs,       \* history: hand-offs to Quotation made in needs_quotation, counted
                    \* for the session up to one past the limit
    stalled,        \* history: consecutive turns in which Quotation, in
                    \* awaiting_details, asked again for the missing fields (up to 3)
    response,       \* the envelope the last call of process_user_input returned,
                    \* empty while a call runs
    before,         \* history: the session store as the running turn found it
    probe           \* the arguments and the result of a function called on its own, outside any turn

vars == <<db, pc, state, user_context, turn, caller, known, calls, handoffs, stalled, response, before, probe>>

\* AgentState (agents/base_agent.py); between turns no state object exists
NoState == [context_data |-> EmptyDict, current_agent |-> "",
            last_user_input |-> "", agent_response |-> "",
            needs_human_intervention |-> FALSE, escalation_reason |-> None]

NoTurn == [invoked |-> <<>>, messages |-> <<>>, backend |-> <<>>]

\* the overlapping calls, and a call that has not started
Calls == {1, 2}
NoCall == [pc |-> "idle", s |-> NoState, t |-> NoTurn, turns |-> 0]


\* the store holds nothing of the session
\* no function is called on its own
NoProbe == [op |-> "none"]

NoRows ==
    [status |-> "absent",
     agent_state |-> [a \in Agents |-> EmptyDict],
     quotations |-> 0,
     policies |-> 0]

Init ==
    /\ db = NoRows
    /\ pc = "idle"
    /\ state = NoState
    /\ user_context = EmptyDict
    /\ turn = NoTurn
    /\ caller = ""
    /\ known = {}
    /\ calls = [c \in Calls |-> NoCall]
    /\ handoffs = 0
    /\ stalled = 0
    /\ response = EmptyDict
    /\ before = NoRows
    /\ probe = NoProbe

(***************************************************************************)
(* Rows of the quotations and policies tables are counted up to a bound;   *)
(* the handlers read of them only whether a row exists.                     *)
(***************************************************************************)
MaxQuotations == 1
MaxPolicies == 1

\* variant: the policy is not stored
save_policy_skipped(d) == d

save_quotation(d) == [d EXCEPT !.quotations = Min(MaxQuotations, @ + 1)]
save_policy(d) == [d EXCEPT !.policies = Min(MaxPolicies, @ + 1)]

(***************************************************************************)
(* BaseAgent helpers.  A world w is the triple the handlers work on:       *)
(* w.s the AgentState, w.d the store, w.t the record of the turn.          *)
(***************************************************************************)
SetCtx(w, k, v) == [w EXCEPT !.s.context_data = Put(@, k, v)]
PopCtx(w, k) == [w EXCEPT !.s.context_data = Pop(@, k)]
Ctx(w, k, default) == Get(w.s.context_data, k, default)

update_state(w, agent, agent_response) ==
    [w EXCEPT !.s.agent_response = agent_response, !.s.current_agent = agent]

\* the messages a turn appends are kept in the record of the turn; the rows
\* of earlier turns are not: a handler reads of them only their number
add_message_to_history(w, agent, role) ==
    [w EXCEPT !.t.messages = Append(@, [agent |-> agent, role |-> role])]

\* the row DatabaseManager.add_message inserts for a message a handler (or the
\* orchestrator, for the user's input) appended: the messages table has the
\* columns agent_type and content, and none for the role
add_message(message) == [agent_type |-> message.agent]

\* the entry of conversation_history that _get_or_create_state builds from a
\* row of the messages table
LoadedMessage(row) ==
    [agent |-> row.agent_type,
     role |-> IF row.agent_type = "user" THEN "user" ELSE "assistant"]

save_agent_state(w, agent, state_data) ==
    [w EXCEPT !.d.agent_state[agent] = state_data]

\* variant: the reason is recorded, the flag is not raised
set_escalation_without_flag(w, reason) == [w EXCEPT !.s.escalation_reason = reason]

set_escalation(w, reason) ==
    [w EXCEPT !.s.needs_human_intervention = TRUE, !.s.escalation_reason = reason]

Reply(w, agent, agent_response) ==
    add_message_to_history(update_state(w, agent, agent_response), agent, "assistant")

(***************************************************************************)
(* AgentOrchestrator: building the state of a turn and routing.            *)
(***************************************************************************)
BlobOrder == <<"quotation", "expedition", "consultant", "human_loop">>

\* variant: on a key two blobs hold, the earlier handler's value is kept
RECURSIVE MergeBlobsEarlierWins(_, _)
MergeBlobsEarlierWins(blobs, i) ==
    IF i = 0 THEN EmptyDict
    ELSE Update(blobs[BlobOrder[i]], MergeBlobsEarlierWins(blobs, i - 1))

RECURSIVE MergeBlobs(_, _)
MergeBlobs(blobs, i) ==
    IF i = 0 THEN EmptyDict
    ELSE Update(MergeBlobs(blobs, i - 1), blobs[BlobOrder[i]])

\* the AgentState a call works on: the blobs of an existing session merged in
\* BlobOrder, then the caller's context_data laid over them
_get_or_create_state(d, context_data) ==
    LET existing_context ==
            IF d.status = "absent" THEN EmptyDict
            ELSE MergeBlobs(d.agent_state, Len(BlobOrder))
    IN  [NoState EXCEPT !.current_agent = "router",
                        !.context_data = Update(existing_context, context_data)]

create_session(d) == [d EXCEPT !.status = "active"]

\* process_user_input up to the start of the workflow
process_user_input(user_input, context_data) ==
    /\ state' = [_get_or_create_state(db, context_data)
                    EXCEPT !.last_user_input = user_input]
    /\ db' = IF db.status = "absent" THEN create_session(db) ELSE db
    /\ turn' = [NoTurn EXCEPT !.messages = <<[agent |-> "user", role |-> "user"]>>]
    /\ pc' = "router"
    /\ before' = db
    /\ response' = EmptyDict
    /\ UNCHANGED <<user_context, known, calls, handoffs, stalled, probe>>

\* variant: only the flag escalates
_should_escalate_flag_only(s) == s.needs_human_intervention

_should_escalate_to_human(s) ==
    \/ s.needs_human_intervention
    \/ HumanLoop_can_handle(s.last_user_input, s.context_data)

can_handle(agent, user_input, context, saved_state) ==
    CASE agent = "human_loop" -> HumanLoop_can_handle(user_input, context)
      [] agent = "expedition" -> Expedition_can_handle(user_input, context)
      [] agent = "quotation" -> Quotation_can_handle(user_input, context, saved_state)
      [] agent = "consultant" -> Consultant_can_handle(user_input)

\* variant: no flow is taken as active
_check_active_flows_none(s) == None

_check_active_flows(s) ==
    IF Truthy(Get(s.context_data, "expedition_state", None))
    THEN "expedition"
    ELSE IF Get(s.context_data, "quotation_state", None)
            \in {"awaiting_details", "analyzing_image", "awaiting_image"}
    THEN "quotation"
    ELSE IF s.needs_human_intervention
    THEN "human_loop"
    ELSE IF /\ s.current_agent \in Agents
            /\ can_handle(s.current_agent, s.last_user_input, s.context_data, EmptyDict)
    THEN s.current_agent
    ELSE None

_fallback_routing_traditional(s, saved_state) ==
    IF Expedition_can_handle(s.last_user_input, s.context_data) THEN "expedition"
    ELSE IF Quotation_can_handle(s.last_user_input, s.context_data, saved_state)
    THEN "quotation"
    ELSE "consultant"

\* the node the router's conditional edge selects, and the state it leaves
_determine_next_agent(s, d, llm) ==
    LET transfer_to == Get(s.context_data, "transfer_to", None)
        saved_state == d.agent_state["quotation"]
        Classified(c) ==
            IF /\ c.agent \in Agents
               /\ \/ c.confidence > RoutingThreshold
                  \/ can_handle(c.agent, s.last_user_input, s.context_data, saved_state)
            THEN [next |-> c.agent, s |-> s]
            ELSE [next |-> _fallback_routing_traditional(s, saved_state), s |-> s]
        Flow(active_agent) ==
            IF active_agent # None
            THEN [next |-> active_agent, s |-> s]
            ELSE Classified(classify_intent(llm, s.last_user_input, s.context_data))
    IN  IF _should_escalate_to_human(s)
        THEN [next |-> "human_loop", s |-> s]
        ELSE IF transfer_to \in Agents
        THEN [next |-> transfer_to,
              s |-> [s EXCEPT !.context_data = Pop(@, "transfer_to")]]
        ELSE Flow(_check_active_flows(s))

_check_post_agent_routing(s) ==
    LET transfer_to == Get(s.context_data, "transfer_to", None)
    IN  IF s.needs_human_intervention
        THEN [next |-> "human_loop", s |-> s]
        ELSE IF Get(s.context_data, "force_end", FALSE)
        THEN [next |-> "end", s |-> [s EXCEPT !.context_data = Pop(@, "force_end")]]
        ELSE IF transfer_to \in {"quotation", "expedition", "consultant"}
        THEN [next |-> transfer_to,
              s |-> [s EXCEPT !.context_data = Pop(@, "transfer_to")]]
        ELSE IF s.current_agent = "quotation"
        THEN IF Get(s.context_data, "quotation_state", "") = "quote_ready"
             THEN [next |-> "final_response", s |-> s]
             ELSE IF Get(s.context_data, "awaiting_user_response", FALSE)
             THEN [next |-> "end", s |-> s]
             ELSE [next |-> "final_response", s |-> s]
        ELSE [next |-> "final_response", s |-> s]

\* variant: every node is given the edges of the consultant
EdgeMapOfConsultant(node) == {"quotation", "human_loop", "final_response", "end"}

\* the conditional edges _create_workflow gives each node
EdgeMap(node) ==
    CASE node = "router" -> {"consultant", "quotation", "expedition", "human_loop", "end"}
      [] node = "consultant" -> {"quotation", "human_loop", "final_response", "end"}
      [] node = "quotation" ->
            {"expedition", "consultant", "human_loop", "final_response", "end"}
      [] node = "expedition" ->
            {"quotation", "human_loop", "consultant", "final_response", "end"}

(***************************************************************************)
(* Quotations as the handlers see them.  The pricing engine quotes the     *)
(* three plans of PLAN_RATES; the vehicle of a stored quotation holds all  *)
(* five fields, since generate_quotation reads all five.                   *)
(***************************************************************************)
PlanNames == <<"Plan Basico", "Plan Autos Clasico", "Plan Autos Global">>
Vehicle == [marca |-> "m", modelo |-> "a", linea |-> "l", clase |-> "c", color |-> "k"]
\* QuotationService.generate_quotation's result
ExactQuotation == [quotations |-> PlanNames, vehicle_info |-> Vehicle]
\* what the handlers rebuild from the latest row of the quotations table
RecoveredQuotation == [quotations |-> PlanNames, vehicle_details |-> Vehicle]
\* _handle_quotation_fallback's estimate: no "quotations" key
EstimatedQuotation == [plans |-> <<"Plan Básico Estimado", "Plan Clásico Estimado">>,
                       vehicle_info |-> Vehicle, is_estimated |-> TRUE]

Range(seq) == {seq[i] : i \in DOMAIN seq}
\* quotation.get("quotations", {}) as the sequence of its plan names
QuotationsOf(q) == Get(q, "quotations", <<>>)
VehicleOf(q) == Get(q, "vehicle_details", Get(q, "vehicle_info", EmptyDict))

(***************************************************************************)
(* ExpeditionService (services/expedition_service.py).                     *)
(***************************************************************************)
RequiredFields == {"identificacion_tomador", "celular_tomador", "email_tomador"}

\* the fields validate_client_data reports an error for
validate_client_data(client_data) ==
    LET id == Strip(Get(client_data, "identificacion_tomador", ""))
        cel == Strip(Get(client_data, "celular_tomador", ""))
        email == Strip(Get(client_data, "email_tomador", ""))
    IN  {f \in RequiredFields : ~Has(client_data, f) \/ client_data[f] = ""}
        \cup {f \in {"identificacion_tomador"} :
                Has(client_data, f) /\ (~IsDigit(id) \/ Len(id) < 6 \/ Len(id) > 12)}
        \cup {f \in {"celular_tomador"} :
                Has(client_data, f) /\ (~IsDigit(cel) \/ Len(cel) # 10)}
        \cup {f \in {"email_tomador"} :
                Has(client_data, f) /\ (~Contains(email, "@") \/ ~Contains(email, "."))}

\* prepare_expedition_payload raises ValueError when a key it reads is missing
PayloadRaises(client_data, vehicle_data, quotation_data, selected_plan) ==
    \/ selected_plan \notin Range(QuotationsOf(quotation_data))
    \/ ~Has(client_data, "identificacion_tomador")
    \/ ~Has(client_data, "celular_tomador")
    \/ \E k \in {"marca", "modelo", "linea", "clase", "color"} : ~Has(vehicle_data, k)

\* what expedite_policy may return: the policy, the fixed text it gives for a
\* failed connection, or, for an answer other than 201 without a body, the
\* status code of the API
BackendResults == {
    [success |-> TRUE, error |-> None],
    [success |-> FALSE, error |-> "Error de conexión con el sistema de expedición"],
    [success |-> FALSE, error |-> "Error HTTP 500"] }

(***************************************************************************)
(* ExpeditionAgent (agents/expedition_agent.py).                           *)
(***************************************************************************)
DigitSeq == <<"0","1","2","3","4","5","6","7","8","9">>

\* int(s) for a string of digits; values past the cap are all "too large"
RECURSIVE IntOf(_)
IntOf(s) ==
    IF Len(s) = 0 THEN 0
    ELSE Min(100000,
             10 * IntOf(SubSeq(s, 1, Len(s) - 1))
             + (CHOOSE i \in DOMAIN DigitSeq : DigitSeq[i] = CharAt(s, Len(s))) - 1)

\* re.match(r'^(\d+)', s): the digits s starts with
LeadingDigits(s) ==
    LET n == CHOOSE k \in 0..Len(s) :
                /\ \A i \in 1..k : CharAt(s, i) \in Digits
                /\ (k = Len(s) \/ CharAt(s, k + 1) \notin Digits)
    IN  SubSeq(s, 1, n)

FirstPlanWith(plans, Test(_)) == SelectSeqOr(plans, Test, None)

_parse_plan_selection(user_input, quotation) ==
    LET available_plans == QuotationsOf(quotation)
        low == Strip(Lower(user_input))
        lead == LeadingDigits(low)
        InRange(digits) == IntOf(digits) >= 1 /\ IntOf(digits) <= Len(available_plans)
        Named(plan) == Contains(low, Lower(plan))
        Basic(plan) == Contains(Lower(plan), "basico")
        Classic(plan) == Contains(Lower(plan), "clasico")
        Global(plan) == Contains(Lower(plan), "global")
    IN  IF quotation = EmptyDict \/ ~Has(quotation, "quotations") THEN None
        ELSE IF IsDigit(low) /\ InRange(low) THEN available_plans[IntOf(low)]
        ELSE IF lead # "" /\ InRange(lead) THEN available_plans[IntOf(lead)]
        ELSE IF FirstPlanWith(available_plans, Named) # None
        THEN FirstPlanWith(available_plans, Named)
        ELSE IF Contains(low, "basico") /\ FirstPlanWith(available_plans, Basic) # None
        THEN FirstPlanWith(available_plans, Basic)
        ELSE IF Contains(low, "clasico") /\ FirstPlanWith(available_plans, Classic) # None
        THEN FirstPlanWith(available_plans, Classic)
        ELSE IF Contains(low, "global") /\ FirstPlanWith(available_plans, Global) # None
        THEN FirstPlanWith(available_plans, Global)
        ELSE None

\* _extract_all_client_data_with_llm: the fields the language model returns,
\* after the checks the method applies to each.  The model reads what the
\* text holds; `extract` is the set of fields it reports.
Extractions == {RequiredFields, {"identificacion_tomador"}, {}}

_extract_all_client_data_with_llm(user_input, extract) ==
    LET Valid(f, v) ==
            CASE f = "identificacion_tomador" ->
                    /\ IsDigit(v) /\ Len(v) >= 6
                    /\ Len(v) <= 11 /\ ~StartsWith(v, "3")
              [] f = "celular_tomador" ->
                    IsDigit(v) /\ Len(v) = 10 /\ StartsWith(v, "3")
              [] f = "email_tomador" -> Contains(v, "@")
        Validated(result) ==
            [f \in {k \in (DOMAIN result) \cap extract : Valid(k, result[k])} |-> result[f]]
    IN  Validated(RegexClientData(user_input))

_parse_client_data(user_input, extract) ==
    LET OrRegex(llm_data) ==
            IF llm_data # EmptyDict THEN llm_data ELSE RegexClientData(user_input)
    IN  OrRegex(_extract_all_client_data_with_llm(user_input, extract))

_no_quotation_available(w) ==
    LET w1 == SetCtx(SetCtx(SetCtx(w, "expedition_state", "needs_quotation"),
                            "transfer_to", "quotation"),
                     "previous_agent", "expedition")
        w2 == save_agent_state(w1, "expedition",
                [expedition_state |-> "needs_quotation", quotation_available |-> FALSE])
    IN  Reply(w2, "expedition", "no_quotation_available")

\* variant: the start asks for the confirmation at once, no data collected
_start_expedition_process_confirming(w) ==
    Reply(SetCtx(w, "expedition_state", "confirming_purchase"),
          "expedition", "purchase_confirmation")

_start_expedition_process(w) ==
    LET current_quotation == Ctx(w, "current_quotation", EmptyDict)
        plans == QuotationsOf(current_quotation)
        w1 == SetCtx(w, "expedition_state", "requesting_client_data")
        w2 == SetCtx(SetCtx(w, "selected_plan", plans[1]),
                     "expedition_state", "requesting_client_data")
    IN  IF current_quotation = EmptyDict \/ Len(plans) = 0
        THEN _no_quotation_available(w)
        ELSE IF Len(plans) > 1
        THEN Reply(save_agent_state(w1, "expedition",
                        [expedition_state |-> "requesting_client_data",
                         awaiting_plan_selection |-> TRUE,
                         quotation_available |-> TRUE]),
                   "expedition", "plan_selection")
        ELSE Reply(save_agent_state(w2, "expedition",
                        [expedition_state |-> "requesting_client_data",
                         selected_plan |-> plans[1],
                         quotation_available |-> TRUE]),
                   "expedition", "client_data_request")

\* variant: the except clause apologises and does not ask for an advisor
Expedition_process_except_quiet(w) == Reply(w, "expedition", "expedition_error_apology")

\* the except clause of ExpeditionAgent.process
Expedition_process_except(w) ==
    set_escalation(Reply(w, "expedition", "expedition_error_apology"),
                   "Error técnico en proceso de expedición")

\* _request_purchase_confirmation raises when the quotation does not price
\* the selected plan or carries no vehicle
ConfirmationRaises(context_data) ==
    LET quotation == Get(context_data, "current_quotation", EmptyDict)
    IN  \/ ~Truthy(Get(context_data, "selected_plan", None))
        \/ quotation = EmptyDict
        \/ Get(context_data, "selected_plan", None) \notin Range(QuotationsOf(quotation))
        \/ \E k \in {"marca", "modelo", "linea"} : ~Has(VehicleOf(quotation), k)

_process_client_data(w, extract) ==
    LET user_input == w.s.last_user_input
        no_plan == ~Truthy(Ctx(w, "selected_plan", None))
        q0 == Ctx(w, "current_quotation", EmptyDict)
        recover == no_plan /\ (q0 = EmptyDict \/ Len(QuotationsOf(q0)) = 0)
                           /\ w.d.quotations > 0
        \* w1: after the recovery of the quotation; client_data: the accumulation
        Validate(w1, plan_selection, client_data) ==
            LET chosen == SetCtx(SetCtx(w1, "selected_plan", plan_selection),
                                 "expedition_state", "requesting_client_data")
                w2 == SetCtx(w1, "partial_client_data", client_data)
                missing_fields ==
                    {f \in RequiredFields : ~Has(client_data, f) \/ client_data[f] = ""}
                no_quotation == Ctx(w1, "current_quotation", EmptyDict) = EmptyDict
                w3 == IF no_quotation
                      THEN SetCtx(w2, "current_quotation", RecoveredQuotation) ELSE w2
                w4 == SetCtx(w3, "client_data", client_data)
                w5 == SetCtx(w4, "expedition_state", "confirming_purchase")
            IN  IF plan_selection # None
                THEN Reply(save_agent_state(chosen, "expedition",
                                [expedition_state |-> "requesting_client_data",
                                 selected_plan |-> plan_selection,
                                 quotation_available |-> TRUE]),
                           "expedition", "client_data_request")
                ELSE IF missing_fields # {}
                THEN Reply(w2, "expedition", "missing_data_request")
                ELSE IF validate_client_data(client_data) # {}
                THEN Reply(w2, "expedition", "data_correction_request")
                ELSE IF ~Truthy(Ctx(w1, "selected_plan", None))
                THEN set_escalation(w2, "Error técnico: plan no seleccionado")
                ELSE IF no_quotation /\ w1.d.quotations = 0
                THEN set_escalation(w2, "No se encontró cotización para confirmación")
                ELSE IF ConfirmationRaises(w4.s.context_data)
                THEN Expedition_process_except(w4)
                ELSE Reply(save_agent_state(w5, "expedition",
                                [expedition_state |-> "confirming_purchase",
                                 client_data |-> client_data,
                                 selected_plan |-> Ctx(w1, "selected_plan", None),
                                 quotation_available |-> TRUE]),
                           "expedition", "purchase_confirmation")
        Accumulate(w1) ==
            Validate(w1,
                     IF no_plan
                     THEN _parse_plan_selection(user_input, Ctx(w1, "current_quotation", q0))
                     ELSE None,
                     Update(Ctx(w1, "partial_client_data", EmptyDict),
                            _parse_client_data(user_input, extract)))
    IN  Accumulate(IF recover THEN SetCtx(w, "current_quotation", RecoveredQuotation) ELSE w)

\* expedite_policy is called here and nowhere else; result is what it returns
_execute_expedition(w, result) ==
    LET w1 == SetCtx(w, "expedition_state", "processing_expedition")
        saved == w1.d.agent_state["expedition"]
        no_client_data == Get(w1.s.context_data, "client_data", EmptyDict) = EmptyDict
        client_data ==
            IF no_client_data THEN Get(saved, "client_data", EmptyDict)
            ELSE Ctx(w1, "client_data", EmptyDict)
        w2 == IF no_client_data THEN SetCtx(w1, "client_data", client_data) ELSE w1
        no_quotation == Ctx(w2, "current_quotation", EmptyDict) = EmptyDict
        current_quotation ==
            IF no_quotation THEN RecoveredQuotation ELSE Ctx(w2, "current_quotation", EmptyDict)
        w3 == IF no_quotation THEN SetCtx(w2, "current_quotation", current_quotation) ELSE w2
        selected_plan == Ctx(w3, "selected_plan", None)
        called == [w3 EXCEPT !.t.backend = Append(@, result)]
        done ==
            IF result.success
            THEN SetCtx(SetCtx([called EXCEPT !.d = save_policy(@)],
                               "expedition_result", [numero_poliza |-> "POL"]),
                        "expedition_state", "expedition_completed")
            ELSE set_escalation(called, "Error en expedición: " \o result.error)
        blob == [expedition_executed |-> TRUE,
                 success |-> result.success,
                 policy_number |-> IF result.success THEN "POL" ELSE None,
                 client_data |-> client_data,
                 selected_plan |-> selected_plan]
    IN  IF client_data = EmptyDict
        THEN set_escalation(w1, "Error técnico: datos del cliente no disponibles")
        ELSE IF no_quotation /\ w2.d.quotations = 0
        THEN set_escalation(w2, "Error técnico: cotización no disponible")
        ELSE IF ~Truthy(selected_plan)
        THEN _start_expedition_process(w3)
        ELSE IF PayloadRaises(client_data, VehicleOf(current_quotation),
                              current_quotation, selected_plan)
        THEN set_escalation(Reply(w3, "expedition", "expedition_error_apology"),
                            "Error técnico en expedición: Error preparando datos para expedición")
        ELSE Reply(save_agent_state(done, "expedition", blob), "expedition",
                   IF result.success THEN "expedition_success" ELSE "expedition_error")

\* the failure messages of the handlers, by the parts their text is built
\* from: an apology, a next action for the user, and the text put into the
\* message from outside (None: the message is a fixed text).
\* _format_error_response embeds the error of the backend's result, the
\* except clause of QuotationAgent.process the first 200 characters of
\* str(e); the except clauses of Issuance and Consultation are fixed texts.
FailureMessage(agent_response, expedition_result) ==
    CASE agent_response = "expedition_error" ->
            [apology |-> TRUE, next_action |-> TRUE, embedded |-> expedition_result.error]
      [] agent_response = "error_debug" ->
            [apology |-> FALSE, next_action |-> TRUE, embedded |-> "str(e)"]
      [] OTHER ->
            [apology |-> TRUE, next_action |-> TRUE, embedded |-> None]

confirmation_words ==
    {"sí", "si", "confirmo", "acepto", "correcto", "proceder", "continuar", "ok", "vale"}
cancellation_words == {"no", "cancelar", "cambiar", "modificar", "negar"}

\* variant: every reply is taken as a confirmation
_process_purchase_confirmation_always(w, result) == _execute_expedition(w, result)

\* variant: a reply sends the flow back to needs_quotation
_process_purchase_confirmation_restart(w, result) ==
    Reply(SetCtx(w, "expedition_state", "needs_quotation"), "expedition", "what_to_change")

_process_purchase_confirmation(w, result) ==
    LET user_input_lower == Lower(w.s.last_user_input)
    IN  IF Strip(user_input_lower) \in {"1", "si", "s", "y", "yes", "ok"}
        THEN _execute_expedition(w, result)
        ELSE IF AnyIn(confirmation_words, user_input_lower)
        THEN _execute_expedition(w, result)
        ELSE IF AnyIn(cancellation_words, user_input_lower)
        THEN Reply(SetCtx(w, "expedition_state", "requesting_client_data"),
                   "expedition", "what_to_change")
        ELSE Reply(w, "expedition", "confirm_again")

\* _provide_policy_details reads quotation["quotations"][selected_plan] and
\* quotation["vehicle_info"] when the context holds a quotation and a plan
PolicyDetailsRaises(context_data) ==
    LET quotation == Get(context_data, "current_quotation", EmptyDict)
        selected_plan == Get(context_data, "selected_plan", None)
    IN  /\ quotation # EmptyDict
        /\ Truthy(selected_plan)
        /\ \/ selected_plan \notin Range(QuotationsOf(quotation))
           \/ ~Has(quotation, "vehicle_info")

_handle_post_expedition(w) ==
    LET user_input_lower == Lower(w.s.last_user_input)
    IN  IF AnyIn({"consultar", "estado", "información", "detalles"}, user_input_lower)
        THEN IF PolicyDetailsRaises(w.s.context_data)
             THEN Expedition_process_except(w)
             ELSE Reply(w, "expedition", "policy_details")
        ELSE IF AnyIn({"problema", "error", "asesor", "ayuda"}, user_input_lower)
        THEN Reply(set_escalation(w, "Cliente solicita ayuda post-expedición"),
                   "expedition", "connect_advisor")
        ELSE Reply(w, "expedition", "policy_issued")

MaxTransferAttempts == 3

\* variant: the anti-loop test never fires
transfer_limit_never(transfer_attempts) == FALSE

\* the anti-loop test of the needs_quotation branch
transfer_limit_reached(transfer_attempts) == transfer_attempts >= MaxTransferAttempts

\* ExpeditionAgent.process; extract and result are what the language model
\* and the issuance API answer if the handler calls them
Expedition_process(w, extract, result) ==
    LET expedition_state == Ctx(w, "expedition_state", "")
        transfer_attempts == Ctx(w, "transfer_attempts", 0)
        retry == _no_quotation_available(
                    SetCtx(w, "transfer_attempts", transfer_attempts + 1))
    IN  IF expedition_state = "needs_quotation"
        THEN IF transfer_limit_reached(transfer_attempts)
             THEN set_escalation(w,
                    "No se pudo recuperar cotización después de múltiples intentos")
             ELSE IF Ctx(w, "current_quotation", EmptyDict) # EmptyDict
             THEN _start_expedition_process(w)
             ELSE IF Ctx(w, "expedition_ready", FALSE)
             THEN IF w.d.quotations > 0
                  THEN _start_expedition_process(
                        PopCtx(SetCtx(w, "current_quotation", RecoveredQuotation),
                               "expedition_ready"))
                  ELSE retry
             ELSE retry
        ELSE IF ~Truthy(expedition_state)
        THEN _start_expedition_process(w)
        ELSE IF expedition_state = "requesting_client_data"
        THEN _process_client_data(w, extract)
        ELSE IF expedition_state = "confirming_purchase"
        THEN _process_purchase_confirmation(w, result)
        ELSE IF expedition_state = "expedition_completed"
        THEN _handle_post_expedition(w)
        ELSE _start_expedition_process(w)

(***************************************************************************)
(* QuotationAgent (agents/quotation_agent.py).  The details of a vehicle   *)
(* are kept as the set of the fields that hold a value; whether the        *)
(* catalogue prices a vehicle is an answer of the pricing engine.          *)
(***************************************************************************)
VehicleFields == {"marca", "modelo", "linea", "clase", "color"}

doesnt_know_phrases == {
    "no sé", "no se", "no conozco", "no tengo idea", "no estoy seguro",
    "no lo sé", "no recuerdo", "no saben", "desconozco", "no tengo esa información",
    "linea no", "línea no", "no sé la", "no se la", "no conozco la",
    "no estoy segur", "no tengo claro", "no me acuerdo" }

doesnt_know_line_phrases == {
    "no sé", "no se", "no conozco", "no tengo idea", "no estoy seguro",
    "no lo sé", "no recuerdo", "desconozco", "no tengo esa información",
    "no la conozco", "no sé la línea", "no conozco la línea" }

marcas_comunes == {"toyota", "chevrolet", "ford", "renault", "nissan", "hyundai", "mazda", "kia"}

clase_keywords == {"automóvil", "automovil", "carro", "sedan", "sedán",
                   "camioneta", "pickup", "suv", "4x4", "moto", "motocicleta"}

\* re.search(r'\b(19|20)\d{2}\b', s): the first year the text holds, or None
YearMatch(s) ==
    LET IsYear(w) == /\ IsDigit(w) /\ Len(w) = 4
                     /\ SubSeq(w, 1, 2) \in {"19", "20"}
    IN  SelectSeqOr(RunTexts(s, WordChars), IsYear, None)

\* s.replace(old, "") for an old that occurs once or not at all
RemoveFirst(s, old) ==
    IF ~Contains(s, old) THEN s
    ELSE LET i == CHOOSE k \in 1..Len(s) :
                    /\ SubSeq(s, k, k + Len(old) - 1) = old
                    /\ \A j \in 1..(k - 1) : SubSeq(s, j, j + Len(old) - 1) # old
         IN  SubSeq(s, 1, i - 1) \o SubSeq(s, i + Len(old), Len(s))

\* the fields _parse_vehicle_details finds a value for (the language-model
\* pass reads self.llm_client, which the agent never sets: it yields nothing)
_parse_vehicle_details(user_input, existing_analysis) ==
    LET low == Lower(user_input)
        year == YearMatch(user_input)
        structured ==
            AnyIn({"LÍNEA", "LINEA", "REFERENCIA"}, Upper(Strip(user_input)))
            /\ Contains(user_input, ":")
        line_candidate ==
            IF year # None THEN Strip(RemoveFirst(user_input, year)) ELSE user_input
        free_line ==
            /\ Len(Strip(user_input)) > 0
            /\ ~AnyIn(doesnt_know_line_phrases, low)
            /\ line_candidate # ""
            /\ ~AnyIn({"no sé", "no conozco", "específica"}, Lower(line_candidate))
    IN  existing_analysis
        \cup {f \in {"modelo"} : year # None}
        \cup {f \in {"marca"} : AnyIn(marcas_comunes, low)}
        \cup {f \in {"clase"} : AnyIn(clase_keywords, low)}
        \cup {f \in {"linea"} : structured \/ free_line}

\* _apply_smart_defaults gives every field a value
_apply_smart_defaults(details) == details \cup VehicleFields

\* what the services answer during one run of the handler
QuotationAnswers ==
    [insurable : BOOLEAN,          \* the catalogue prices the vehicle as given
     alternative : BOOLEAN,        \* one of the alternative lines is priced
     analysis : {"pedir_info", "escalar", "error"}]  \* _llm_analysis_before_escalation

_escalate_to_human(w, reason) ==
    SetCtx(SetCtx(w, "transfer_to", "human_loop"), "escalation_reason", reason)

_llm_analysis_before_escalation(w, answers) ==
    IF answers.analysis = "escalar"
    THEN _escalate_to_human(w, "Análisis LLM recomienda escalamiento")
    ELSE IF answers.analysis = "pedir_info"
    THEN SetCtx(SetCtx(Reply(w, "quotation", "need_more_vehicle_info"),
                       "quotation_state", "awaiting_details"),
                "llm_analysis", answers.analysis)
    ELSE _escalate_to_human(SetCtx(w, "quotation_state", "awaiting_details"),
                            "Fallo en análisis automático")

\* the except clause of QuotationAgent.process
Quotation_process_except(w) == Reply(w, "quotation", "error_debug")

_generate_quotation(w, vehicle_details, validated, answers) ==
    LET w1 == SetCtx(w, "quotation_state", "generating_quote")
        \* first attempt: the vehicle as given; second: an alternative line
        exact == "color" \in vehicle_details /\ (validated \/ answers.insurable)
        quoted == exact \/ answers.alternative
        w2 == SetCtx(SetCtx(SetCtx([w1 EXCEPT !.d = save_quotation(@)],
                                   "current_quotation", ExactQuotation),
                            "quotation_state", "quote_ready"),
                     "quotation_id", "Q")
    IN  IF ~quoted
        THEN _llm_analysis_before_escalation(w1, answers)
        ELSE save_agent_state(Reply(w2, "quotation", "quotation"), "quotation",
                [quotation_id |-> "Q", vehicle_details |-> Vehicle,
                 quotation_generated |-> TRUE, plans_quoted |-> PlanNames])

_process_vehicle_details(w, answers) ==
    LET user_input == Lower(w.s.last_user_input)
        vehicle_analysis == Ctx(w, "vehicle_analysis", {})
        user_doesnt_know == AnyIn(doesnt_know_phrases, user_input)
        details == _parse_vehicle_details(w.s.last_user_input, vehicle_analysis)
        attempt_count == Ctx(w, "detail_request_attempts", 0)
        essential_fields ==
            IF Ctx(w, "flexible_mode", FALSE) THEN {"marca"} ELSE {"marca", "modelo"}
        missing_essential == essential_fields \ details
        w1 == SetCtx(w, "detail_request_attempts", attempt_count + 1)
        \* the emergency defaults give marca, modelo, linea and clase, not color
        final == details \cup {"marca", "modelo", "linea", "clase"}
    IN  IF user_doesnt_know \/ attempt_count >= 1
        THEN _generate_quotation(Reply(w, "quotation", "estimated_details"),
                                 _apply_smart_defaults(details), FALSE, answers)
        ELSE IF missing_essential # {}
        THEN IF vehicle_analysis # {}
             THEN _generate_quotation(Reply(w1, "quotation", "completed_details"),
                                      _apply_smart_defaults(details), FALSE, answers)
             ELSE SetCtx(SetCtx(SetCtx(Reply(w1, "quotation", "confirm_details"),
                                       "quotation_completed", FALSE),
                                "awaiting_user_response", TRUE),
                         "force_proceed_next", TRUE)
        ELSE IF ~answers.insurable
        THEN IF answers.alternative
             THEN _generate_quotation(Reply(w, "quotation", "similar_vehicle"),
                                      _apply_smart_defaults(final), TRUE, answers)
             ELSE set_escalation(Reply(w, "quotation", "not_insurable"),
                                 "Vehículo no asegurable según catálogo")
        ELSE _generate_quotation(w, final, TRUE, answers)

\* _format_quotation_response reads quotation["vehicle_info"] and
\* quotation["quotations"]
FormatRaises(quotation) ==
    \/ ~Has(quotation, "vehicle_info")
    \/ ~Has(quotation, "quotations")

_handle_quotation_fallback(w) ==
    Reply(SetCtx(SetCtx(w, "current_quotation", EstimatedQuotation),
                 "quotation_state", "quote_ready"),
          "quotation", "estimated_quotation")

_handle_quote_interaction(w) ==
    LET user_input_lower == Lower(w.s.last_user_input)
    IN  IF AnyIn({"comprar", "adquirir", "expedir", "emitir", "sí acepto"}, user_input_lower)
        THEN Reply(SetCtx(SetCtx(w, "transfer_to", "expedition"),
                          "transfer_reason", "Usuario desea comprar póliza"),
                   "quotation", "connect_expedition")
        ELSE IF AnyIn({"cambiar", "modificar", "otro plan", "diferente"}, user_input_lower)
        THEN Reply(w, "quotation", "modify_quotation")
        ELSE IF AnyIn({"qué incluye", "cobertura", "detalles", "más información"},
                      user_input_lower)
        THEN Reply(w, "quotation", "more_details")
        ELSE Reply(w, "quotation", "quotation_options")

_request_quotation_info(w) ==
    Reply(SetCtx(SetCtx(w, "quotation_state", "awaiting_details"), "flexible_mode", TRUE),
          "quotation", "quotation_info_request")

\* QuotationAgent.process for a turn without an image
Quotation_process(w, answers) ==
    LET quotation_state == Ctx(w, "quotation_state", "")
        user_input_lower == Lower(w.s.last_user_input)
        current_quotation == Ctx(w, "current_quotation", EmptyDict)
        ready == SetCtx(w, "quotation_state", "quote_ready")
        back == SetCtx(SetCtx(PopCtx(w, "previous_agent"), "transfer_to", "expedition"),
                       "expedition_ready", TRUE)
    IN  IF quotation_state = "awaiting_details"
        THEN _process_vehicle_details(w, answers)
        ELSE IF quotation_state = "generating_quote"
        THEN IF AnyIn({"continua", "continúa", "excelente", "perfecto",
                       "sí", "si", "ok", "genial"}, user_input_lower)
             THEN IF current_quotation # EmptyDict
                  THEN IF FormatRaises(current_quotation)
                       THEN Quotation_process_except(ready)
                       ELSE Reply(ready, "quotation", "quotation")
                  ELSE _handle_quotation_fallback(w)
             ELSE Reply(w, "quotation", "processing")
        ELSE IF quotation_state = "quote_ready"
        THEN IF Ctx(w, "previous_agent", "") = "expedition"
             THEN Reply(back, "quotation",
                        IF AnyIn({"comprar", "adquirir", "plan"}, user_input_lower)
                        THEN "proceed_expedition" ELSE "quotation_available")
             ELSE _handle_quote_interaction(w)
        ELSE _request_quotation_info(w)

(***************************************************************************)
(* ConsultantAgent and HumanLoopAgent.                                     *)
(***************************************************************************)
\* what the retrieval service does when the consultant calls it
RagAnswers == {"answer", "unavailable", "error"}

_is_basic_greeting(user_input) ==
    LET user_input_lower == Strip(Lower(user_input))
    IN  WordCount(user_input_lower) <= 3 /\ AnyIn(greeting_keywords, user_input_lower)

\* variant: the except clause asks for an advisor
Consultant_process_escalating(w, rag) ==
    set_escalation(Reply(w, "consultant", "consultant_error_apology"),
                   "Error técnico en consulta")

\* the blob keeps the query and figures of the retrieval; no code reads them
\* back, so they are stored as fixed tokens
Consultant_process(w, rag) ==
    IF _is_basic_greeting(w.s.last_user_input) \/ WordCount(w.s.last_user_input) <= 2
    THEN Reply(w, "consultant", "conversational")
    ELSE IF rag = "unavailable"
    THEN Reply(w, "consultant", "fallback")
    ELSE IF rag = "error"
    THEN Reply(w, "consultant", "consultant_error_apology")
    ELSE save_agent_state(Reply(w, "consultant", "rag_answer"), "consultant",
            [last_query |-> "query", rag_confidence |-> "confidence",
             sources_used |-> "sources", docs_used |-> "docs"])

\* long_history: len(state.conversation_history) > MAX_EXCHANGES_WITHOUT_PROGRESS
_determine_escalation_reason(w, long_history) ==
    LET user_input_lower == Lower(w.s.last_user_input)
    IN  IF Truthy(w.s.escalation_reason) THEN w.s.escalation_reason
        ELSE IF AnyIn({"persona", "humano", "asesor"}, user_input_lower)
        THEN "Solicitud explícita de asesor humano"
        ELSE IF AnyIn({"no entiendo", "confundido", "no comprendo"}, user_input_lower)
        THEN "Usuario necesita clarificación adicional"
        ELSE IF AnyIn({"problema", "error", "no funciona"}, user_input_lower)
        THEN "Problema técnico o funcional reportado"
        ELSE IF AnyIn({"cancelar", "no quiero", "cambiar opinion"}, user_input_lower)
        THEN "Usuario quiere cancelar o cambiar decisión"
        ELSE IF long_history
        THEN "Conversación prolongada sin resolución"
        ELSE "Escalamiento automático por patrones detectados"

update_session_status(d, status) == [d EXCEPT !.status = status]

HumanLoop_process(w, long_history) ==
    LET escalation_reason == _determine_escalation_reason(w, long_history)
        w1 == SetCtx(SetCtx(SetCtx(SetCtx(set_escalation(w, escalation_reason),
                                          "human_intervention_activated", TRUE),
                                   "escalation_timestamp", "now"),
                            "conversation_summary", "summary"),
                     "advisor_notification", "notification")
        w2 == [w1 EXCEPT !.d = update_session_status(@, "transferred")]
        w3 == add_message_to_history(Reply(w2, "human_loop", "transfer_notice"),
                                     "human_loop", "system")
    IN  save_agent_state(w3, "human_loop",
            [escalation_executed |-> TRUE, escalation_reason |-> escalation_reason,
             escalation_timestamp |-> "now", conversation_summary |-> "summary"])

\* the calls of the store in HumanLoopAgent.process at which an exception is
\* modelled: update_session_status, and save_agent_state (after both messages)
HumanLoopSteps == {"status", "save"}

\* HumanLoopAgent.process when the step raises: what was done before it
\* stays, and the except clause appends its own notice
HumanLoop_process_except(w, long_history, step) ==
    LET escalation_reason == _determine_escalation_reason(w, long_history)
        w1 == SetCtx(SetCtx(SetCtx(SetCtx(set_escalation(w, escalation_reason),
                                          "human_intervention_activated", TRUE),
                                   "escalation_timestamp", "now"),
                            "conversation_summary", "summary"),
                     "advisor_notification", "notification")
        w2 == [w1 EXCEPT !.d = update_session_status(@, "transferred")]
        w3 == add_message_to_history(Reply(w2, "human_loop", "transfer_notice"),
                                     "human_loop", "system")
        Caught(done) == Reply(done, "human_loop", "advisor_will_contact")
    IN  Caught(CASE step = "status" -> w1
                 [] step = "save" -> w3)

(***************************************************************************)
(* The workflow: one action per node of the graph, one per caller.         *)
(***************************************************************************)
_prepare_final_response(s) ==
    LET turn_count == Get(s.context_data, "turn_count", 0)
    IN  [s EXCEPT !.context_data =
            Put(Put(Put(@, "response_metadata",
                        [processing_agent |-> s.current_agent,
                         session_active |-> ~s.needs_human_intervention,
                         conversation_turn |-> turn_count + 1]),
                    "turn_count", turn_count + 1),
                "conversation_pattern", "pattern")]

\* response["context"] of _format_orchestrator_response
_format_orchestrator_response(s) ==
    [has_active_quotation |->
        Get(s.context_data, "current_quotation", EmptyDict) # EmptyDict,
     quotation_state |-> Get(s.context_data, "quotation_state", None),
     expedition_state |-> Get(s.context_data, "expedition_state", None),
     needs_human_intervention |-> s.needs_human_intervention]

World == [s |-> state, d |-> db, t |-> turn]
Entered(node) == [World EXCEPT !.t.invoked = Append(@, node)]

\* a node has run and left w: the conditional edge picks the next node; a
\* name the node's edge map lacks ends the call in process_user_input's except
Leave(node, w) ==
    LET r == _check_post_agent_routing(w.s)
    IN  /\ state' = r.s
        /\ db' = w.d
        /\ turn' = w.t
        /\ pc' = IF r.next \in EdgeMap(node) THEN r.next ELSE "failed"
        /\ handoffs' =
                IF /\ node = "expedition" /\ r.next = "quotation"
                   /\ Get(state.context_data, "expedition_state", None) = "needs_quotation"
                THEN Min(MaxTransferAttempts + 1, handoffs + 1)
                ELSE handoffs
        /\ stalled' =
                IF /\ node = "quotation"
                   /\ Get(state.context_data, "quotation_state", None) = "awaiting_details"
                THEN IF /\ Get(w.s.context_data, "quotation_state", None) = "awaiting_details"
                        /\ w.s.agent_response = "confirm_details"
                     THEN Min(3, stalled + 1)
                     ELSE 0
                ELSE stalled
        /\ UNCHANGED <<user_context, caller, known, calls, response, before, probe>>

\* ClientInterface._process_user_input: while an advisor holds the session
\* (status human_active) the message goes to the advisor and no turn starts
ClientTurn(user_input) ==
    /\ pc = "idle" /\ caller \in {"", "client"}
    /\ db.status # "human_active"
    /\ process_user_input(user_input, user_context)
    /\ caller' = "client"

\* process_user_input called without context_data
ApiTurn(user_input) ==
    /\ pc = "idle" /\ caller \in {"", "api"}
    /\ process_user_input(user_input, EmptyDict)
    /\ caller' = "api"

Route(llm) ==
    /\ pc = "router"
    /\ LET Follow(r) ==
               /\ state' = r.s
               /\ pc' = IF r.next \in EdgeMap("router") THEN r.next ELSE "failed"
       IN  Follow(_determine_next_agent(state, db, llm))
    /\ UNCHANGED <<db, user_context, turn, caller, known, calls, handoffs, stalled, response, before, probe>>

RunConsultant(rag) ==
    /\ pc = "consultant"
    /\ Leave("consultant", Consultant_process(Entered("consultant"), rag))

RunQuotation(answers) ==
    /\ pc = "quotation"
    /\ Leave("quotation", Quotation_process(Entered("quotation"), answers))

RunExpedition(extract, result) ==
    /\ pc = "expedition"
    /\ Leave("expedition", Expedition_process(Entered("expedition"), extract, result))

RunHumanLoop(long_history) ==
    /\ pc = "human_loop"
    /\ LET w == HumanLoop_process(Entered("human_loop"), long_history)
       IN  state' = w.s /\ db' = w.d /\ turn' = w.t
    /\ pc' = "end"
    /\ UNCHANGED <<user_context, caller, known, calls, handoffs, stalled, response, before, probe>>

FinalResponse ==
    /\ pc = "final_response"
    /\ state' = _prepare_final_response(state)
    /\ pc' = "end"
    /\ UNCHANGED <<db, user_context, turn, caller, known, calls, handoffs, stalled, response, before, probe>>

\* variant: the call ends without an envelope
error_envelope_raised == [raised |-> TRUE]

\* the envelope of the except clause of process_user_input, without its
\* session_id; "error" holds str(e)
error_envelope ==
    [success |-> FALSE, content |-> "apology", type |-> "error", error |-> "e"]

\* the call returns; the client folds response["context"] into user_context
Finish ==
    /\ pc \in {"end", "failed"}
    /\ user_context' =
            IF caller = "client" /\ pc = "end"
            THEN LET folded == Update(user_context, _format_orchestrator_response(state))
                 IN  IF state.needs_human_intervention
                     THEN Put(folded, "human_intervention_active", TRUE)
                     ELSE folded
            ELSE user_context
    /\ known' =
            IF Get(state.context_data, "expedition_state", None) = "requesting_client_data"
            THEN DOMAIN Get(state.context_data, "partial_client_data", EmptyDict)
            ELSE {}
    /\ pc' = "idle"
    /\ state' = NoState
    /\ turn' = NoTurn
    /\ stalled' = IF \E i \in DOMAIN turn.invoked : turn.invoked[i] = "quotation"
                  THEN stalled ELSE 0
    /\ response' =
            IF pc = "end"
            THEN [success |-> TRUE, type |-> "agent_response"]
            ELSE error_envelope
    /\ before' = NoRows
    /\ UNCHANGED <<db, caller, calls, handoffs, probe>>

\* AdvisorInterface._send_advisor_response between two turns.  The advisor
\* works in another process; the status it writes is read only when a client
\* turn starts (its write during a turn is AdvisorRespondsDuringTurn)
AdvisorResponds ==
    /\ pc = "idle"
    /\ db.status \in {"active", "transferred"}
    /\ db' = update_session_status(db, "human_active")
    /\ UNCHANGED <<pc, state, user_context, turn, caller, known, calls, handoffs, stalled, response, before, probe>>

\* AdvisorInterface._return_to_ai
AdvisorReturnsToAI ==
    /\ pc = "idle"
    /\ db.status \in {"transferred", "human_active"}
    /\ db' = update_session_status(db, "active")
    /\ UNCHANGED <<pc, state, user_context, turn, caller, known, calls, handoffs, stalled, response, before, probe>>

\* _get_or_create_state raises on its first read of the store (get_session):
\* the call has written nothing and goes to the except clause
StateLoadRaises ==
    /\ pc = "idle"
    /\ caller # "client" \/ db.status # "human_active"
    /\ pc' = "failed"
    /\ before' = db
    /\ response' = EmptyDict
    /\ UNCHANGED <<db, state, user_context, turn, caller, known, calls, handoffs,
                   stalled, probe>>

\* self.app.ainvoke raises while the workflow is at a node (the store, the
\* classifier, a handler or the graph fails): what the turn has written so
\* far stays, and the call goes to the except clause
WorkflowRaises ==
    /\ pc \in {"router", "final_response"} \cup Agents
    /\ pc' = "failed"
    /\ UNCHANGED <<db, state, user_context, turn, caller, known, calls, handoffs,
                   stalled, response, before, probe>>

Next ==
    \/ \E user_input \in Corpus : ClientTurn(user_input)
    \/ \E user_input \in Corpus : ApiTurn(user_input)
    \/ \E llm \in ClassifierOutputs : Route(llm)
    \/ \E rag \in RagAnswers : RunConsultant(rag)
    \/ \E answers \in QuotationAnswers : RunQuotation(answers)
    \/ \E extract \in Extractions, result \in BackendResults :
            RunExpedition(extract, result)
    \/ \E long_history \in BOOLEAN : RunHumanLoop(long_history)
    \/ FinalResponse
    \/ Finish
    \/ AdvisorResponds
    \/ AdvisorReturnsToAI

Spec == Init /\ [][Next]_vars

\* _send_advisor_response while a call of the client is in progress: the
\* client read the status before it called process_user_input, and nothing
\* on the way reads it again
AdvisorRespondsDuringTurn ==
    /\ pc # "idle"
    /\ db.status \in {"active", "transferred"}
    /\ db' = update_session_status(db, "human_active")
    /\ UNCHANGED <<pc, state, user_context, turn, caller, known, calls, handoffs,
                   stalled, response, before, probe>>

\* the sessions in which the advisor acts while a turn runs
NextAdvisor ==
    \/ Next
    \/ AdvisorRespondsDuringTurn

SpecAdvisor == Init /\ [][NextAdvisor]_vars

\* the Escalation node when a step of HumanLoopAgent.process raises
RunHumanLoopRaises(long_history, step) ==
    /\ pc = "human_loop"
    /\ LET w == HumanLoop_process_except(Entered("human_loop"), long_history, step)
       IN  state' = w.s /\ db' = w.d /\ turn' = w.t
    /\ pc' = "end"
    /\ UNCHANGED <<user_context, caller, known, calls, handoffs, stalled, response, before, probe>>

\* the sessions in which the store may fail inside Escalation
NextEscalationFail ==
    \/ Next
    \/ \E long_history \in BOOLEAN, step \in HumanLoopSteps :
            RunHumanLoopRaises(long_history, step)

SpecEscalationFail == Init /\ [][NextEscalationFail]_vars

\* the Issuance node when the store raises in add_message_to_history, the one
\* call of the store in ExpeditionAgent.process that is not wrapped (BaseAgent.
\* save_agent_state logs and swallows, the recoveries of the quotation have
\* their own handlers): what the handler did up to its reply stays, the entry
\* is in conversation_history already, and the except clause runs
RunExpeditionRaises(extract, result) ==
    /\ pc = "expedition"
    /\ LET Raised(replied) ==
               /\ Len(replied.t.messages) > Len(turn.messages)
               /\ Leave("expedition", Expedition_process_except(replied))
       IN  Raised(Expedition_process(Entered("expedition"), extract, result))

\* the sessions in which the store may fail inside Issuance
NextExpeditionFail ==
    \/ Next
    \/ \E extract \in Extractions, result \in BackendResults :
            RunExpeditionRaises(extract, result)

SpecExpeditionFail == Init /\ [][NextExpeditionFail]_vars

\* the sessions in which the store or a service may fail during a call
NextFail ==
    \/ Next
    \/ StateLoadRaises
    \/ WorkflowRaises

SpecFail == Init /\ [][NextFail]_vars

\* process_user_input called with a context_data that names a transfer: the
\* handlers, the nodes of the workflow that are no handler, and a name the
\* workflow does not know
TransferValues == Agents \cup {"final_response", "end", "router", "billing"}

ApiTurnWithTransfer(user_input, transfer_to) ==
    /\ pc = "idle" /\ caller \in {"", "api"}
    /\ process_user_input(user_input, [transfer_to |-> transfer_to])
    /\ caller' = "api"

NextApi ==
    \/ Next
    \/ \E user_input \in Corpus, transfer_to \in TransferValues :
            ApiTurnWithTransfer(user_input, transfer_to)

SpecApi == Init /\ [][NextApi]_vars

(***************************************************************************)
(* Functions called on their own.  validate_client_data is a method of the *)
(* expedition service that reads nothing but its argument; the tests call  *)
(* it directly.  `probe` holds the argument of such a call and, once the   *)
(* call has returned, its result; get_session_status is such a call too.   *)
(***************************************************************************)
\* get_session_status reads the session row and the messages table and
\* writes nothing.  A log is the sequence of the session's messages in the
\* order they were appended (the order of their timestamps), each message
\* standing for itself by its position.
MaxLogLen == 7

\* SELECT ... ORDER BY timestamp ASC [LIMIT ?]; `if limit:` takes 0 as none
get_conversation_history(log, limit) ==
    IF limit = 0 THEN log ELSE SubSeq(log, 1, Min(limit, Len(log)))

\* the fields of the status that come from the log
get_session_status(log) ==
    LET Status(recent_history) ==
            [exists |-> TRUE,
             message_count |-> Len(recent_history),
             \* recent_history[-3:]
             last_messages |->
                SubSeq(recent_history,
                       IF Len(recent_history) > 3 THEN Len(recent_history) - 2 ELSE 1,
                       Len(recent_history))]
    IN  Status(get_conversation_history(log, 5))

ClientDataTexts ==
    [identificacion_tomador |->
        {"", "12345", "123456", "123456789012", "1234567890123", "12a456"},
     celular_tomador |-> {"123456789", "3001234567", "30012345678", "30012x4567"},
     email_tomador |-> {"a@b.com", "a-b.com", "a.b@c", "a@b"}]

\* the dictionaries handed to validate_client_data: any of the three fields
\* may be absent
ClientDataInputs ==
    UNION {{d \in [F -> UNION {ClientDataTexts[f] : f \in RequiredFields}] :
                \A f \in F : d[f] \in ClientDataTexts[f]} : F \in SUBSET RequiredFields}

\* the blobs a stored session may hold: the handlers of this version write
\* disjoint keys, the table keeps whatever was written to it, so the blobs of
\* a call on its own are drawn over two keys any of the four rows may hold;
\* each value names the row it came from
BlobKeys == {"selected_plan", "quotation_state"}
StoredBlobs(a) == {[k \in K |-> a] : K \in SUBSET BlobKeys}
CallerContexts == {EmptyDict, [user_type |-> "client"]}

InitPure ==
    /\ db = NoRows
    /\ pc = "idle"
    /\ state = NoState
    /\ user_context = EmptyDict
    /\ turn = NoTurn
    /\ caller = ""
    /\ known = {}
    /\ calls = [c \in Calls |-> NoCall]
    /\ handoffs = 0
    /\ stalled = 0
    /\ response = EmptyDict
    /\ before = NoRows
    /\ probe \in {NoProbe} \cup
            {[op |-> "validate_client_data", client_data |-> d,
              done |-> FALSE, errors |-> {}] : d \in ClientDataInputs} \cup
            {[op |-> "get_session_status", log |-> [i \in 1..n |-> i],
              done |-> FALSE, status |-> [exists |-> FALSE]] : n \in 0..MaxLogLen} \cup
            {[op |-> "classify_intent", llm |-> l, user_input |-> u, context |-> c,
              done |-> FALSE,
              result |-> [intent |-> "", agent |-> "", confidence |-> 0]] :
                l \in {o \in ClassifierOutputs : o.kind # "json"}, u \in Corpus,
                c \in {EmptyDict, [quotation_state |-> "awaiting_details"]}} \cup
            {[op |-> "_get_or_create_state", d |-> NoRows, context_data |-> c,
              done |-> FALSE, context |-> EmptyDict] : c \in CallerContexts} \cup
            {[op |-> "_get_or_create_state",
              d |-> [NoRows EXCEPT !.status = "active", !.agent_state = blobs],
              context_data |-> c, done |-> FALSE, context |-> EmptyDict] :
                blobs \in {b \in [Agents -> UNION {StoredBlobs(a) : a \in Agents}] :
                                \A a \in Agents : b[a] \in StoredBlobs(a)},
                c \in CallerContexts}

CallValidateClientData ==
    /\ probe.op = "validate_client_data"
    /\ ~probe.done
    /\ probe' = [probe EXCEPT !.done = TRUE,
                              !.errors = validate_client_data(probe.client_data)]
    /\ UNCHANGED <<db, pc, state, user_context, turn, caller, known, calls,
                   handoffs, stalled, response, before>>

CallGetSessionStatus ==
    /\ probe.op = "get_session_status"
    /\ ~probe.done
    /\ probe' = [probe EXCEPT !.done = TRUE, !.status = get_session_status(probe.log)]
    /\ UNCHANGED <<db, pc, state, user_context, turn, caller, known, calls,
                   handoffs, stalled, response, before>>

\* classify_intent when the language model raises or answers with a text
\* that is not the JSON asked for
CallClassifyIntent ==
    /\ probe.op = "classify_intent"
    /\ ~probe.done
    /\ probe' = [probe EXCEPT !.done = TRUE,
                              !.result = classify_intent(probe.llm, probe.user_input,
                                                         probe.context)]
    /\ UNCHANGED <<db, pc, state, user_context, turn, caller, known, calls,
                   handoffs, stalled, response, before>>

\* a session, or one call of a function on its own
\* the context_data of the state _get_or_create_state builds
CallGetOrCreateState ==
    /\ probe.op = "_get_or_create_state"
    /\ ~probe.done
    /\ probe' = [probe EXCEPT
                    !.done = TRUE,
                    !.context = _get_or_create_state(probe.d, probe.context_data).context_data]
    /\ UNCHANGED <<db, pc, state, user_context, turn, caller, known, calls,
                   handoffs, stalled, response, before>>

NextPure ==
    \/ probe = NoProbe /\ Next
    \/ CallValidateClientData
    \/ CallGetSessionStatus
    \/ CallGetOrCreateState
    \/ CallClassifyIntent

SpecPure == InitPure /\ [][NextPure]_vars

(***************************************************************************)
(* Overlapping calls.  process_user_input takes no lock and every database *)
(* method opens a connection of its own, so calls made for one session_id  *)
(* (from two processes, or from two tasks of one event loop) interleave at *)
(* each access of the store.  Each call holds its own AgentState; the      *)
(* store is shared.  The calls pass no context_data.                       *)
(***************************************************************************)
MaxCallTurns == 2
ConcCorpus == {"hola", "quiero comprarlo", "quiero hablar con un asesor"}

Sequential == <<pc, state, user_context, turn, caller, known, handoffs, stalled, response, before, probe>>

CallWorld(c) == [s |-> calls[c].s, d |-> db, t |-> calls[c].t]
CallEntered(c, node) == [CallWorld(c) EXCEPT !.t.invoked = Append(@, node)]

\* the call's state and the store after a node has run and left w at next
CallAt(c, next, w) ==
    /\ calls' = [calls EXCEPT ![c].pc = next, ![c].s = w.s, ![c].t = w.t]
    /\ db' = w.d
    /\ UNCHANGED Sequential

CallLeave(c, node, w) ==
    LET Follow(r) ==
            CallAt(c, IF r.next \in EdgeMap(node) THEN r.next ELSE "failed",
                   [w EXCEPT !.s = r.s])
    IN  Follow(_check_post_agent_routing(w.s))

\* _get_or_create_state reads the session row
CallGetSession(c, user_input) ==
    /\ calls[c].pc = "idle" /\ calls[c].turns < MaxCallTurns
    /\ calls' = [calls EXCEPT
                    ![c].pc = IF db.status = "absent" THEN "create" ELSE "load",
                    ![c].s = [NoState EXCEPT !.last_user_input = user_input]]
    /\ UNCHANGED <<db, Sequential>>

\* the state of a call whose session held existing_session when it was read
CallState(c, existing_session) ==
    [s |-> [_get_or_create_state(existing_session, EmptyDict)
                EXCEPT !.last_user_input = calls[c].s.last_user_input],
     d |-> db,
     t |-> [NoTurn EXCEPT !.messages = <<[agent |-> "user", role |-> "user"]>>]]

\* the call found no row: its INSERT succeeds, or fails on the primary key if
\* another call has inserted the row since, and the call ends in the except
\* clause of process_user_input
CallCreateSession(c) ==
    /\ calls[c].pc = "create"
    /\ IF db.status = "absent"
       THEN CallAt(c, "router", [CallState(c, db) EXCEPT !.d = create_session(db)])
       ELSE CallAt(c, "failed", CallWorld(c))

\* the call found the row: it reads the handlers' blobs
CallLoadState(c) ==
    /\ calls[c].pc = "load"
    /\ CallAt(c, "router", CallState(c, db))

CallRoute(c, llm) ==
    /\ calls[c].pc = "router"
    /\ LET Follow(r) ==
               CallAt(c, IF r.next \in EdgeMap("router") THEN r.next ELSE "failed",
                      [CallWorld(c) EXCEPT !.s = r.s])
       IN  Follow(_determine_next_agent(calls[c].s, db, llm))

CallRunConsultant(c, rag) ==
    /\ calls[c].pc = "consultant"
    /\ CallLeave(c, "consultant", Consultant_process(CallEntered(c, "consultant"), rag))

CallRunQuotation(c, answers) ==
    /\ calls[c].pc = "quotation"
    /\ CallLeave(c, "quotation", Quotation_process(CallEntered(c, "quotation"), answers))

CallRunExpedition(c, extract, result) ==
    /\ calls[c].pc = "expedition"
    /\ CallLeave(c, "expedition",
                 Expedition_process(CallEntered(c, "expedition"), extract, result))

CallRunHumanLoop(c, long_history) ==
    /\ calls[c].pc = "human_loop"
    /\ CallAt(c, "end", HumanLoop_process(CallEntered(c, "human_loop"), long_history))

CallFinalResponse(c) ==
    /\ calls[c].pc = "final_response"
    /\ CallAt(c, "end", [CallWorld(c) EXCEPT !.s = _prepare_final_response(@)])

\* the call returns its response, or the error response of the except clause
CallReturn(c) ==
    /\ calls[c].pc \in {"end", "failed"}
    /\ calls' = [calls EXCEPT ![c] =
                    [pc |-> IF calls[c].pc = "failed" THEN "returned_error" ELSE "idle",
                     s |-> NoState, t |-> NoTurn, turns |-> calls[c].turns + 1]]
    /\ UNCHANGED <<db, Sequential>>

NextConc ==
    \/ \E c \in Calls, user_input \in ConcCorpus : CallGetSession(c, user_input)
    \/ \E c \in Calls : CallCreateSession(c)
    \/ \E c \in Calls : CallLoadState(c)
    \/ \E c \in Calls, llm \in ClassifierOutputs : CallRoute(c, llm)
    \/ \E c \in Calls, rag \in RagAnswers : CallRunConsultant(c, rag)
    \/ \E c \in Calls, answers \in QuotationAnswers : CallRunQuotation(c, answers)
    \/ \E c \in Calls, extract \in Extractions, result \in BackendResults :
            CallRunExpedition(c, extract, result)
    \/ \E c \in Calls, long_history \in BOOLEAN : CallRunHumanLoop(c, long_history)
    \/ \E c \in Calls : CallFinalResponse(c)
    \/ \E c \in Calls : CallReturn(c)

SpecConc == Init /\ [][NextConc]_vars

(***************************************************************************)
(* Properties.                                                             *)
(***************************************************************************)
Handlers == {"consultant", "quotation", "expedition", "human_loop"}
ExpeditionState == Get(state.context_data, "expedition_state", "")
QuotationState == Get(state.context_data, "quotation_state", "")
BackendCalls == Len(turn.backend)
Invoked == {turn.invoked[i] : i \in DOMAIN turn.invoked}
FailedCalls == {i \in DOMAIN turn.backend : ~turn.backend[i].success}

\* the reply of the running turn, read as ExpeditionAgent reads a confirmation
Affirmative ==
    \/ Strip(Lower(state.last_user_input)) \in {"1", "si", "s", "y", "yes", "ok"}
    \/ AnyIn(confirmation_words, Lower(state.last_user_input))
HasNegative == AnyIn(cancellation_words, Lower(state.last_user_input))
Confirming == pc = "expedition" /\ ExpeditionState = "confirming_purchase"

\* the longest chain of hand-offs: Quotation hands over to Issuance, the two
\* alternate until the transfer counter reaches its limit, Issuance escalates
HopBound == 2 * (MaxTransferAttempts + 2) + 1

\* C1: in every turn the number of handler invocations stays within
\* HopBound and no conditional edge fails, so the turn runs on to END.
C1_BoundedTurn == Len(turn.invoked) <= HopBound /\ pc # "failed"

\* a turn in which Issuance and Quotation handed over to each other until the
\* limit, and which then ended
C1_Witness ==
    /\ pc = "end"
    /\ Len(turn.invoked) = HopBound
    /\ Get(state.context_data, "transfer_attempts", 0) = MaxTransferAttempts

\* C2: while a session is escalated (needs_human_intervention is set in the
\* running turn, or the session is still marked transferred because no
\* advisor has set it back to active) no handler other than Escalation runs.
C2_EscalationAbsorbs ==
    (state.needs_human_intervention \/ db.status = "transferred")
        => pc \notin {"consultant", "quotation", "expedition"}

\* C3: the issuance backend is called only by an affirmative reply given in
\* confirming_purchase, such a reply calls it exactly once, and no other step
\* of that turn or a later one calls it again.
C3_BackendOncePerConfirmation ==
    [][/\ BackendCalls' > BackendCalls =>
            Confirming /\ Affirmative /\ BackendCalls = 0 /\ BackendCalls' = 1
       /\ (Confirming /\ Affirmative) => BackendCalls' = BackendCalls + 1]_vars

\* a turn that ended after its one call of the backend had failed
C3_Witness ==
    /\ pc = "end"
    /\ BackendCalls = 1
    /\ FailedCalls = {1}

\* C4: after a failed backend call the turn never holds expedition_completed,
\* needs_human_intervention is set, the escalation reason Issuance returns
\* with contains the backend's error text, and the next handler is Escalation.
C4_BackendFailureEscalates ==
    \A i \in FailedCalls :
        /\ ExpeditionState # "expedition_completed"
        /\ state.needs_human_intervention
        /\ pc \in {"human_loop", "end"}
        /\ pc = "human_loop" => Contains(state.escalation_reason, turn.backend[i].error)
        /\ pc = "end" => turn.invoked[Len(turn.invoked)] = "human_loop"

\* Issuance has returned from a failed backend call
C4_Witness ==
    /\ pc = "human_loop"
    /\ FailedCalls # {}
    /\ turn.invoked[Len(turn.invoked)] = "expedition"

\* C5: when Issuance starts a turn in requesting_client_data, the client
\* fields in the rebuilt state include those it held when the last turn ended.
C5_FieldsKept ==
    (pc = "expedition" /\ turn.invoked = <<>>
        /\ ExpeditionState = "requesting_client_data")
        => known \subseteq DOMAIN Get(state.context_data, "partial_client_data", EmptyDict)

\* C7: no turn invokes both Quotation.process and Issuance.process.
C7_HandOffAcrossTurns == ~({"quotation", "expedition"} \subseteq Invoked)

\* C8: in confirming_purchase a reply with an affirmative and no negative
\* keyword invokes the backend; a reply that is neither that nor a negative
\* without an affirmative keyword keeps confirming_purchase and invokes nothing.
C8_AmbiguousReprompts ==
    [][Confirming =>
        IF Affirmative /\ ~HasNegative
        THEN BackendCalls' = BackendCalls + 1
        ELSE IF HasNegative /\ ~Affirmative
        THEN TRUE
        ELSE ExpeditionState' = "confirming_purchase" /\ BackendCalls' = BackendCalls]_vars

C10_CompletedIsTerminal ==
    (db.policies > 0 /\ pc = "router")
        => Get(_get_or_create_state(db, EmptyDict).context_data,
               "expedition_state", None) = "expedition_completed"

InFlight == {c \in Calls : calls[c].pc \notin {"idle", "returned_error"}}

\* C6: at most one call of process_user_input works on the session at any
\* time, and no call ends in error because of another call's session row.
C6_OneTurnInFlight ==
    /\ Cardinality(InFlight) <= 1
    /\ \A c \in Calls : calls[c].pc \notin {"failed", "returned_error"}

\* C11: over a session Issuance hands off to Quotation from needs_quotation
\* at most MaxTransferAttempts times; after that it escalates instead.
C11_HandOffsCapped == handoffs <= MaxTransferAttempts

\* C12: Quotation does not stay in awaiting_details asking for the missing
\* vehicle fields for more than 2 consecutive turns: by then it applies the
\* default values and goes on to generating_quote.
C12_DetailsNotAskedForever == stalled <= 2

\* C13: once a quotation exists, Quotation run on the state that a turn
\* rebuilds from the session store does not set quotation_state back to
\* awaiting_details and does not ask for the vehicle again.
C13_QuoteReadyKept ==
    (db.quotations > 0 /\ pc = "quotation")
        => \A answers \in QuotationAnswers :
              LET rebuilt == [_get_or_create_state(db, EmptyDict)
                                EXCEPT !.last_user_input = state.last_user_input]
                  Ran(w) ==
                      /\ Get(w.s.context_data, "quotation_state", None) # "awaiting_details"
                      /\ w.s.agent_response # "quotation_info_request"
              IN  Ran(Quotation_process([s |-> rebuilt, d |-> db, t |-> turn], answers))

\* C14: when Quotation, having the vehicle's details, finds that the pricing
\* engine rejects the vehicle and that no alternative is priced, it returns
\* with needs_human_intervention set and the turn goes on to Escalation: the
\* request to escalate is not dropped.
C14_RejectionEscalates ==
    (pc = "quotation" /\ QuotationState = "awaiting_details")
        => \A answers \in QuotationAnswers :
              LET Returned(w) ==
                      w.s.agent_response # "confirm_details"
                          => /\ w.s.needs_human_intervention
                             /\ _check_post_agent_routing(w.s).next = "human_loop"
              IN  (~answers.insurable /\ ~answers.alternative)
                      => Returned(Quotation_process(Entered("quotation"), answers))

\* the assistant messages the step appends to the turn's messages
AssistantAppended ==
    Cardinality({i \in (Len(turn.messages) + 1)..Len(turn'.messages) :
                    turn'.messages[i].role = "assistant"})

\* C15: every run of a handler's process appends exactly one assistant
\* message, or appends none and sets needs_human_intervention; no run appends
\* two, and none returns without a message and without the flag.
C15_OneMessagePerInvocation ==
    [][(pc \in Agents) =>
          (AssistantAppended = 1
           \/ (AssistantAppended = 0 /\ state'.needs_human_intervention))]_vars

\* C16: process_user_input does not raise: a call that fails returns the
\* envelope with success false, the apology as content and an error field.
C16_FailureReturnsEnvelope ==
    [][(pc = "failed") =>
          (/\ Has(response', "success") /\ ~response'.success
           /\ Has(response', "error")
           /\ Get(response', "content", None) = "apology")]_vars

C16_Witness == Has(response, "success") /\ ~response.success

\* C17: a call that ends in the except clause leaves the session store as it
\* found it: no row of the session, no message and no blob was written.
C17_FailedTurnWritesNothing ==
    pc = "failed" => (db = before /\ turn.messages = <<>>)

\* C18: a turn in which Escalation has run has ended with the session
\* marked transferred, needs_human_intervention set and an acknowledgement of
\* Escalation among the turn's messages, also when a step of Escalation
\* failed; Escalation is the last handler of its turn and runs once.
C18_EscalationCompletes ==
    \A i \in DOMAIN turn.invoked :
        turn.invoked[i] = "human_loop"
            => /\ i = Len(turn.invoked)
               /\ pc \in {"end", "failed"}
               /\ pc = "end"
                    => /\ db.status = "transferred"
                       /\ state.needs_human_intervention
                       /\ \E j \in DOMAIN turn.messages :
                              turn.messages[j] = [agent |-> "human_loop",
                                                  role |-> "assistant"]

\* C19: while the session is human_active no handler runs on a turn of the
\* client and no assistant message is appended, however the advisor's
\* take-over and the client's turn interleave.
C19_SuspendedWhileHumanActive ==
    [][(db.status = "human_active" /\ caller = "client") =>
          (turn'.invoked = turn.invoked /\ AssistantAppended = 0)]_vars

\* C20: once the session exists its status changes only from active to
\* transferred (by Escalation), from transferred to human_active (the advisor
\* posts) and from human_active to active (the advisor closes or hands back).
C20_StatusCycle ==
    [][(db'.status # db.status) =>
          (\/ db.status = "absent" /\ db'.status = "active"
           \/ db.status = "active" /\ db'.status = "transferred" /\ pc = "human_loop"
           \/ db.status = "transferred" /\ db'.status = "human_active"
           \/ db.status = "human_active" /\ db'.status = "active")]_vars

\* what C21 asks of a client-data dictionary: the three fields present, a
\* cédula of 6 to 12 digits, a mobile of exactly 10 digits, an e-mail with
\* an '@' and a dot in the segment after it
WellFormedClientData(d) ==
    /\ RequiredFields \subseteq DOMAIN d
    /\ IsDigit(d.identificacion_tomador)
    /\ Len(d.identificacion_tomador) \in 6..12
    /\ IsDigit(d.celular_tomador)
    /\ Len(d.celular_tomador) = 10
    /\ \E p \in 1..Len(d.email_tomador) :
            /\ CharAt(d.email_tomador, p) = "@"
            /\ \E q \in (p + 1)..Len(d.email_tomador) : CharAt(d.email_tomador, q) = "."

\* C21: validate_client_data returns no error exactly when the three fields
\* are present, the cédula has 6 to 12 digits, the mobile exactly 10 digits
\* and the e-mail an '@' followed by a domain segment with a dot; and the
\* issuance flow is in confirming_purchase only with client data that pass it.
C21_ValidationExact ==
    /\ (probe.op = "validate_client_data" /\ probe.done)
            => (probe.errors = {} <=> WellFormedClientData(probe.client_data))
    /\ (ExpeditionState = "confirming_purchase")
            => validate_client_data(Get(state.context_data, "client_data", EmptyDict)) = {}

\* the task state C22 names: Quotation's and Issuance's
TaskKeys ==
    {"quotation_state", "current_quotation",
     "expedition_state", "selected_plan", "partial_client_data", "client_data"}

\* C22: the task state the handlers hold in context_data when a turn ends is
\* exactly what _get_or_create_state rebuilds for the next turn from the
\* persisted per-handler blobs alone, with no caller-supplied context.
C22_TaskStateSurvivesReset ==
    pc = "end"
        => \A k \in TaskKeys :
              Get(state.context_data, k, None)
                = Get(_get_or_create_state(db, EmptyDict).context_data, k, None)

\* C23: a message appended in a turn is read back in later turns as it was
\* appended: same role (user, assistant or system) and producing handler, in
\* the order of appending.
C23_MessagesReadBackAsAppended ==
    \A i \in DOMAIN turn.messages :
        LoadedMessage(add_message(turn.messages[i])) = turn.messages[i]

\* the calls of the issuance backend that returned success in this step
SuccessesAppended ==
    Cardinality({i \in (Len(turn.backend) + 1)..Len(turn'.backend) :
                    turn'.backend[i].success})

C26_ConsultationOnlyAnswers ==
    /\ Cardinality({i \in DOMAIN turn.invoked : turn.invoked[i] = "consultant"}) <= 1
    /\ (pc = "consultant")
        => \A rag \in RagAnswers :
              LET Answered(w) ==
                    /\ ~w.s.needs_human_intervention
                    /\ Get(w.s.context_data, "transfer_to", None)
                         = Get(state.context_data, "transfer_to", None)
                    /\ w.t.messages
                         = Append(turn.messages, [agent |-> "consultant", role |-> "assistant"])
              IN  Answered(Consultant_process(Entered("consultant"), rag))

\* the retrieval raised and Consultation apologised without escalating
C26_Witness ==
    /\ state.current_agent = "consultant"
    /\ state.agent_response = "consultant_error_apology"
    /\ ~state.needs_human_intervention
    /\ pc = "final_response"

FailureResponses ==
    {"expedition_error", "error_debug", "expedition_error_apology",
     "consultant_error_apology"}

\* the text is an exception's, or holds a status code
RawError(text) ==
    \/ text = "str(e)"
    \/ \E i \in 1..Len(text) : CharAt(text, i) \in Digits

\* C27: a failure message shown to the user is an apology with a next
\* action, and its content carries neither the text of an exception nor an
\* error code.
C27_FailureMessagesAreClean ==
    (state.agent_response \in FailureResponses /\ pc \in {"human_loop", "final_response"}
     /\ (state.agent_response = "expedition_error" => turn.backend # <<>>))
        => LET Clean(m) ==
                    /\ m.apology
                    /\ m.next_action
                    /\ (m.embedded # None => ~RawError(m.embedded))
           IN  Clean(FailureMessage(state.agent_response,
                        IF turn.backend = <<>> THEN [error |-> None]
                        ELSE turn.backend[Len(turn.backend)]))

\* C28: for a log of n messages get_session_status returns as last_messages
\* the final min(3, n) messages of the log in append order, and as
\* message_count the length of the log.
C28_StatusShowsLatest ==
    (probe.op = "get_session_status" /\ probe.done)
        => LET n == Len(probe.log)
           IN  /\ probe.status.last_messages
                    = SubSeq(probe.log, IF n > 3 THEN n - 2 ELSE 1, n)
               /\ probe.status.message_count = n

\* C29: the escalation override is the first routing check of a turn: when
\* needs_human_intervention is set or HumanLoopAgent.can_handle accepts the
\* input, the router goes to human_loop whatever transfer_to, the issuance
\* state, the quotation state and the classifier's answer are, and leaves
\* the state (transfer_to included) as it was.
C29_EscalationOverridesRouting ==
    [][(/\ pc = "router"
        /\ \/ state.needs_human_intervention
           \/ HumanLoop_can_handle(state.last_user_input, state.context_data))
        => (pc' = "human_loop" /\ state' = state)]_vars

\* the router went to Escalation at the start of a turn of a session whose
\* issuance was in progress
C29_Witness ==
    /\ pc = "human_loop"
    /\ turn.invoked = <<>>
    /\ ExpeditionState \in ExpeditionStates

\* C30: when no escalation condition holds and context_data holds no valid
\* transfer_to, the router sends a turn whose issuance state is non-empty to
\* Issuance, whatever the classifier answers and whatever the quotation
\* state is; otherwise a turn whose quotation_state is awaiting_details,
\* analyzing_image or awaiting_image goes to Quotation.  A turn of a session
\* whose stored issuance is in progress (client data being collected, or the
\* purchase awaiting confirmation) goes to Issuance.
C30_ActiveFlowContinues ==
    [][(/\ pc = "router"
        /\ ~state.needs_human_intervention
        /\ ~HumanLoop_can_handle(state.last_user_input, state.context_data)
        /\ Get(state.context_data, "transfer_to", None) \notin Agents)
        => /\ Truthy(Get(state.context_data, "expedition_state", None))
                => pc' = "expedition"
           /\ (/\ ~Truthy(Get(state.context_data, "expedition_state", None))
               /\ QuotationState \in {"awaiting_details", "analyzing_image", "awaiting_image"})
                => pc' = "quotation"
           /\ (Get(db.agent_state["expedition"], "expedition_state", None)
                    \in {"requesting_client_data", "confirming_purchase"})
                => pc' = "expedition"]_vars

\* a greeting sent while the client's data are being collected went to Issuance
C30_Witness ==
    /\ pc = "expedition"
    /\ turn.invoked = <<>>
    /\ state.last_user_input = "hola"
    /\ ExpeditionState = "requesting_client_data"

\* the states a handler node may return with, from the state it is entered in
HandlerReturns(node) ==
    CASE node = "consultant" ->
            {Consultant_process(Entered(node), rag).s : rag \in RagAnswers}
      [] node = "quotation" ->
            {Quotation_process(Entered(node), answers).s : answers \in QuotationAnswers}
      [] node = "expedition" ->
            {Expedition_process(Entered(node), extract, result).s :
                extract \in Extractions, result \in BackendResults}
      [] OTHER -> {}

\* C31: after a handler returns, the next step is decided in this order:
\* needs_human_intervention goes to Escalation; otherwise force_end is removed
\* and the turn ends at once; otherwise a transfer_to naming quotation,
\* expedition or consultant is removed and that handler runs; otherwise the
\* turn goes to the assembly of the final response.
C31_PostRoutingOrder ==
    \A s \in HandlerReturns(pc) :
        LET Ordered(r) ==
                IF s.needs_human_intervention
                THEN r.next = "human_loop" /\ r.s = s
                ELSE IF Get(s.context_data, "force_end", FALSE)
                THEN r.next = "end" /\ r.s = [s EXCEPT !.context_data = Pop(@, "force_end")]
                ELSE IF Get(s.context_data, "transfer_to", None)
                            \in {"quotation", "expedition", "consultant"}
                THEN /\ r.next = Get(s.context_data, "transfer_to", None)
                     /\ r.s = [s EXCEPT !.context_data = Pop(@, "transfer_to")]
                ELSE r.next = "final_response" /\ r.s = s
        IN  Ordered(_check_post_agent_routing(s))

\* C32: transfer_to and force_end are single-use: at the end of every turn
\* neither is left in the turn's context_data, in the context the caller
\* keeps for the next turn, or in the state the next turn rebuilds from the
\* session store.
C32_FlagsAreSingleUse ==
    pc = "end"
        => \A k \in {"transfer_to", "force_end"} :
              /\ ~Has(state.context_data, k)
              /\ ~Has(_format_orchestrator_response(state), k)
              /\ ~Has(_get_or_create_state(db, EmptyDict).context_data, k)

\* the router gets as far as the classifier
ClassifierConsulted ==
    /\ pc = "router"
    /\ ~_should_escalate_to_human(state)
    /\ Get(state.context_data, "transfer_to", None) \notin Agents
    /\ _check_active_flows(state) = None

\* C33: the classifier's recommendation is taken only if it names a
\* registered handler and (confidence > 0.6 or that handler's can_handle
\* accepts the input); in every other case, a classifier exception and a
\* malformed answer included, the route is the first of Issuance, Quotation,
\* Consultation whose can_handle accepts, Consultation by default.  The
\* result is always one of the four handlers.
C33_ClassifierIsAdvisory ==
    ClassifierConsulted
        => \A llm \in ClassifierOutputs :
              LET saved_state == db.agent_state["quotation"]
                  Advised(c, next) ==
                      /\ next \in Agents
                      /\ IF /\ llm.kind = "json"
                            /\ c.agent \in Agents
                            /\ \/ c.confidence > RoutingThreshold
                               \/ can_handle(c.agent, state.last_user_input,
                                             state.context_data, saved_state)
                         THEN next = c.agent
                         ELSE next = _fallback_routing_traditional(state, saved_state)
              IN  Advised(classify_intent(llm, state.last_user_input, state.context_data),
                          _determine_next_agent(state, db, llm).next)

\* C34: when the language model fails or its answer is malformed,
\* classify_intent returns what the keyword rules give for the input
\* (quotation keywords, then purchase keywords, then human-request keywords,
\* consultation by default).
C34_FailureUsesKeywordRules ==
    (probe.op = "classify_intent" /\ probe.done)
        => LET Same(rules) ==
                    /\ probe.result.intent = rules.intent
                    /\ probe.result.agent = rules.agent
           IN  Same(_fallback_classification(probe.user_input))

\* the context a load of the rows d gives, the caller bringing nothing the
\* rows hold: the keys are those of the blobs and of the caller, and a key
\* of the blobs has the value of the last row in BlobOrder that holds it
LoadedInBlobOrder(d, context_data, context) ==
    IF d.status = "absent" THEN context = context_data
    ELSE /\ DOMAIN context =
                DOMAIN context_data \cup UNION {DOMAIN d.agent_state[a] : a \in Agents}
         /\ \A k \in DOMAIN context_data : context[k] = context_data[k]
         /\ \A k \in DOMAIN context \ DOMAIN context_data :
                \E i \in 1..Len(BlobOrder) :
                    /\ Has(d.agent_state[BlobOrder[i]], k)
                    /\ context[k] = d.agent_state[BlobOrder[i]][k]
                    /\ \A j \in (i + 1)..Len(BlobOrder) :
                            ~Has(d.agent_state[BlobOrder[j]], k)

\* C35: a load merges the stored blobs in the order quotation, expedition,
\* consultant, human_loop, the later row winning a key two rows hold; a row
\* without a blob adds nothing, and a new session starts with the caller's
\* context alone.  Stated of the load on its own and of the rows every turn
\* has left behind.
C35_BlobsMergedInOrder ==
    /\ LoadedInBlobOrder(db, EmptyDict, _get_or_create_state(db, EmptyDict).context_data)
    /\ (probe.op = "_get_or_create_state" /\ probe.done) =>
            LoadedInBlobOrder(probe.d, probe.context_data, probe.context)

\* a load where the quotation's and the expedition's rows hold the same key,
\* the consultant's row is empty, and the expedition's value came out
C35_Witness ==
    /\ probe.op = "_get_or_create_state"
    /\ probe.done
    /\ Has(probe.d.agent_state["quotation"], "selected_plan")
    /\ Has(probe.d.agent_state["expedition"], "selected_plan")
    /\ probe.d.agent_state["consultant"] = EmptyDict
    /\ probe.d.agent_state["human_loop"] = EmptyDict
    /\ probe.context["selected_plan"] = "expedition"

\* C36: the state a turn starts on keeps, for every key the stored blobs
\* hold, the stored value, whatever the caller sent under that key
C36_CallerContextDoesNotOverwrite ==
    (pc = "router" /\ before.status # "absent") =>
        LET Kept(persisted) ==
                \A k \in DOMAIN persisted : state.context_data[k] = persisted[k]
        IN  Kept(MergeBlobs(before.agent_state, Len(BlobOrder)))

\* a turn of Issuance in requesting_client_data with no plan chosen yet that
\* leaves the plan unchosen
NoPlanChosen ==
    /\ pc = "expedition"
    /\ pc' # "expedition"
    /\ ExpeditionState = "requesting_client_data"
    /\ ~Truthy(Get(state.context_data, "selected_plan", None))
    /\ ~Truthy(Get(state'.context_data, "selected_plan", None))

\* C37: while no plan is chosen, a turn of Issuance in requesting_client_data
\* that chooses none asks for the plan again: it does not ask for personal
\* data, keeps none, and does not escalate
C37_PlanBeforeClientData ==
    [][NoPlanChosen =>
        (/\ state'.agent_response = "plan_selection"
         /\ Get(state'.context_data, "partial_client_data", EmptyDict)
                = Get(state.context_data, "partial_client_data", EmptyDict)
         /\ Get(state'.context_data, "client_data", EmptyDict)
                = Get(state.context_data, "client_data", EmptyDict)
         /\ ~state'.needs_human_intervention)]_vars

\* a step of a handler that puts the issuance into confirming_purchase
SetsConfirmingPurchase ==
    /\ pc \in Agents
    /\ pc' # pc
    /\ ExpeditionState # "confirming_purchase"
    /\ Get(state'.context_data, "expedition_state", "") = "confirming_purchase"

\* the context holds a chosen plan, a quotation that prices it, and the three
\* fields of the client in a form validate_client_data accepts
ReadyToConfirm(context_data) ==
    LET selected_plan == Get(context_data, "selected_plan", None)
        client_data == Get(context_data, "client_data", EmptyDict)
    IN  /\ Truthy(selected_plan)
        /\ selected_plan \in
                Range(QuotationsOf(Get(context_data, "current_quotation", EmptyDict)))
        /\ RequiredFields \subseteq DOMAIN client_data
        /\ validate_client_data(client_data) = {}

\* C38: a step of a handler that sets expedition_state to confirming_purchase
\* leaves a chosen plan, a quotation holding that plan, and client data whose
\* three fields pass validate_client_data
C38_ConfirmingPurchaseIsReady ==
    [][SetsConfirmingPurchase => ReadyToConfirm(state'.context_data)]_vars

\* Issuance has just asked for the confirmation of the purchase
C38_Witness ==
    /\ ExpeditionState = "confirming_purchase"
    /\ state.agent_response = "purchase_confirmation"
    /\ pc = "final_response"

\* a step that calls expedite_policy
BackendInvoked == BackendCalls' > BackendCalls

\* the step is the first handler of its turn, so the state it reads is the
\* state the turn started in
FirstHandlerOfTurn == turn.invoked = <<>>

\* C39: expedite_policy is called only by Issuance, in a turn that starts in
\* confirming_purchase, on a reply that is affirmative: it holds a confirmation
\* keyword and no cancellation keyword
C39_BackendOnlyOnConfirmation ==
    [][BackendInvoked =>
        (/\ pc = "expedition"
         /\ FirstHandlerOfTurn
         /\ ExpeditionState = "confirming_purchase"
         /\ Affirmative
         /\ ~HasNegative)]_vars

\* C40: what _determine_next_agent and _check_post_agent_routing return is an
\* edge of the node that ran, whatever the language model, the services and
\* the handler answer and whatever transfer the caller named; no call ends
\* on an edge the workflow lacks
C40_RoutingWithinEdgeMap ==
    /\ pc # "failed"
    /\ pc = "router" =>
            \A llm \in ClassifierOutputs :
                _determine_next_agent(state, db, llm).next \in EdgeMap("router")
    /\ pc \in {"consultant", "quotation", "expedition"} =>
            \A s \in HandlerReturns(pc) :
                _check_post_agent_routing(s).next \in EdgeMap(pc)

\* a transfer the caller named that the router did not follow is in the
\* context the consultant is about to return
C40_Witness ==
    /\ pc = "consultant"
    /\ caller = "api"
    /\ Get(state.context_data, "transfer_to", None) = "final_response"

====
